---- MODULE Spec2Model ----
(***************************************************************************)
(* A model of the WebKarmaApp cabinet widgets and of its Express server.    *)
(*                                                                         *)
(*   - the cards widget of public/cabinet-cards.js (key ks_cards_v1),       *)
(*   - the coupons widget (key ks_coupons_v1),                              *)
(*   - the two page scripts that share the key ks_cards                     *)
(*     (public/cabinet-cards.js, lines 1-30, and public/cabinet.js),        *)
(*   - the Express middleware stack of the server.                          *)
(*                                                                         *)
(* JavaScript strings are sequences of one-character strings; JavaScript   *)
(* values are tagged records (see Str, Num, Bool, Null, Undef, NaN).       *)
(***************************************************************************)
EXTENDS Integers, Sequences, FiniteSets, TLC

VARIABLES
    page,       \* the page the browser shows (or "server")
    ls,         \* localStorage: key -> raw value (LsAbsent / LsGarbage / LsJson)
    clock,      \* Date.now(): one tick per event handled
    uidCtr,     \* number of ids uid() has handed out
    last,       \* the handler that ran last and what it showed (alert, confirm)
    download,   \* the file the last export handed to the browser
    \* ---- cards widget, key ks_cards_v1
    cards, cSort, cFilters, cForm, cModal, cTbody,
    \* ---- coupons widget, key ks_coupons_v1
    coupons, qSort, qFilter, qForm, qModal, qTbody,
    \* ---- the ks_cards page scripts
    kCards, kForm, kList,       \* cabinet-cards.js, lines 1-30
    rows, rowsTbody,            \* cabinet.js, page-cards
    dRows,                      \* cabinet.js, page-districts / page-overview
    keyUse,                     \* which script read or wrote which key
    \* ---- Express server
    req, layer, res, served,
    \* ---- a function of the program applied to an argument
    arg, out,
    \* ---- a second instance of the cards page, open in another tab
    other,
    \* ---- the mobile sidebar of the dashboard (script.js)
    menu

vars == << page, ls, clock, uidCtr, last, download,
           cards, cSort, cFilters, cForm, cModal, cTbody,
           coupons, qSort, qFilter, qForm, qModal, qTbody,
           kCards, kForm, kList, rows, rowsTbody, dRows, keyUse,
           req, layer, res, served, arg, out, other, menu >>

cardsVars   == << cards, cSort, cFilters, cForm, cModal, cTbody >>
couponsVars == << coupons, qSort, qFilter, qForm, qModal, qTbody >>
ksVars      == << kCards, kForm, kList, rows, rowsTbody, dRows, keyUse >>
serverVars  == << req, layer, res, served >>
fnVars      == << arg, out >>
auxVars     == << other, menu >>

(***************************************************************************)
(* Bounds of the model.                                                    *)
(***************************************************************************)
MaxClock == 3       \* the number of events of a session
MaxUid   == 2       \* uid() is called at most this many times after load
MaxCards == 4       \* no handler grows a collection beyond this length

(***************************************************************************)
(* JavaScript values.                                                      *)
(***************************************************************************)
Str(s)  == [t |-> "str", s |-> s]
Num(n)  == [t |-> "num", n |-> n]
Bool(b) == [t |-> "bool", b |-> b]
Null    == [t |-> "null"]
Undef   == [t |-> "undef"]
NaN     == [t |-> "nan"]

E == << >>                                  \* the empty string ''

\* typeof v
TypeOf(v) ==
    CASE v.t = "str"  -> "string"
      [] v.t = "num"  -> "number"
      [] v.t = "nan"  -> "number"
      [] v.t = "bool" -> "boolean"
      [] v.t = "null" -> "object"
      [] OTHER        -> "undefined"

\* ToBoolean(v): the truthiness JavaScript's ||, && and ! use
Truthy(v) ==
    CASE v.t = "str"  -> v.s # E
      [] v.t = "num"  -> v.n # 0
      [] v.t = "bool" -> v.b
      [] OTHER        -> FALSE

\* a || b
Or(a, b) == IF Truthy(a) THEN a ELSE b

\* a ?? b
Nullish(a, b) == IF a.t \in {"null", "undef"} THEN b ELSE a

(***************************************************************************)
(* Strings: trim, case mapping, includes, decimal numbers.                 *)
(***************************************************************************)
IsSpace(ch) == ch \in {" ", "\n", "\r"}

RECURSIVE TrimLeft(_)
TrimLeft(s) ==
    IF s # E /\ IsSpace(Head(s)) THEN TrimLeft(Tail(s)) ELSE s

RECURSIVE TrimRight(_)
TrimRight(s) ==
    IF s # E /\ IsSpace(s[Len(s)]) THEN TrimRight(SubSeq(s, 1, Len(s) - 1)) ELSE s

\* String.prototype.trim
Trim(s) == TrimRight(TrimLeft(s))

Uppers == << "A", "B", "C", "D", "E", "F", "G", "H", "I", "J", "K", "L", "M",
            "N", "O", "P", "Q", "R", "S", "T", "U", "V", "W", "X", "Y", "Z" >>
Lowers == << "a", "b", "c", "d", "e", "f", "g", "h", "i", "j", "k", "l", "m",
            "n", "o", "p", "q", "r", "s", "t", "u", "v", "w", "x", "y", "z" >>

LowerCh(ch) ==
    IF \E i \in 1..Len(Uppers) : Uppers[i] = ch
    THEN Lowers[CHOOSE i \in 1..Len(Uppers) : Uppers[i] = ch]
    ELSE ch

UpperCh(ch) ==
    IF \E i \in 1..Len(Lowers) : Lowers[i] = ch
    THEN Uppers[CHOOSE i \in 1..Len(Lowers) : Lowers[i] = ch]
    ELSE ch

\* String.prototype.toLowerCase / toUpperCase
ToLowerCase(s) == [i \in 1..Len(s) |-> LowerCh(s[i])]
ToUpperCase(s) == [i \in 1..Len(s) |-> UpperCh(s[i])]

\* String.prototype.includes
Includes(s, sub) ==
    \E i \in 0..(Len(s) - Len(sub)) : SubSeq(s, i + 1, i + Len(sub)) = sub

Digits == << "0", "1", "2", "3", "4", "5", "6", "7", "8", "9" >>

IsDigit(ch) == \E i \in 1..10 : Digits[i] = ch
DigitVal(ch) == (CHOOSE i \in 1..10 : Digits[i] = ch) - 1

RECURSIVE NatToStr(_)
NatToStr(n) ==
    IF n < 10 THEN << Digits[n + 1] >>
    ELSE NatToStr(n \div 10) \o << Digits[(n % 10) + 1] >>

\* String(n) for an integer n
NumToStr(n) == IF n < 0 THEN << "-" >> \o NatToStr(-n) ELSE NatToStr(n)

RECURSIVE DigitsVal(_, _)
DigitsVal(s, acc) ==
    IF s = E THEN acc ELSE DigitsVal(Tail(s), acc * 10 + DigitVal(Head(s)))

AllDigits(s) == s # E /\ \A i \in 1..Len(s) : IsDigit(s[i])

\* Number(s) for a string s: white space is trimmed, the empty string is 0,
\* an optionally signed run of digits is its value, anything else is NaN
\* (the strings of this model hold no '.', no exponent and no radix prefix).
ToNumber(s) ==
    LET x == Trim(s) IN
    IF x = E THEN Num(0)
    ELSE IF AllDigits(x) THEN Num(DigitsVal(x, 0))
    ELSE IF Head(x) = "-" /\ AllDigits(Tail(x)) THEN Num(0 - DigitsVal(Tail(x), 0))
    ELSE IF Head(x) = "+" /\ AllDigits(Tail(x)) THEN Num(DigitsVal(Tail(x), 0))
    ELSE NaN

\* Number(v) for a value
NumberOf(v) ==
    CASE v.t = "str"   -> ToNumber(v.s)
      [] v.t = "num"   -> v
      [] v.t = "nan"   -> NaN
      [] v.t = "bool"  -> Num(IF v.b THEN 1 ELSE 0)
      [] v.t = "null"  -> Num(0)
      [] OTHER         -> NaN

\* String(v): what Array.prototype.join and string concatenation produce
ToStr(v) ==
    CASE v.t = "str"   -> v.s
      [] v.t = "num"   -> NumToStr(v.n)
      [] v.t = "nan"   -> << "N", "a", "N" >>
      [] v.t = "bool"  -> IF v.b THEN << "t", "r", "u", "e" >>
                                 ELSE << "f", "a", "l", "s", "e" >>
      [] v.t = "null"  -> << "n", "u", "l", "l" >>
      [] OTHER         -> << "u", "n", "d", "e", "f", "i", "n", "e", "d" >>

\* new Date().toISOString() at tick t: a string free of commas, quotes and
\* line breaks that grows with t
ISO(t) == << "T", Digits[t + 1] >>


(***************************************************************************)
(* Ordering of strings and values (the < and > of the sort comparators).   *)
(***************************************************************************)
\* the characters of the model, in code-unit order
Alphabet == << "\n", "\r", " ", "\"", "+", ",", "-" >> \o Digits \o Uppers \o Lowers \o << "|" >>

CharCode(ch) == CHOOSE i \in 1..Len(Alphabet) : Alphabet[i] = ch

RECURSIVE StrLt(_, _)
StrLt(a, b) ==
    IF b = E THEN FALSE
    ELSE IF a = E THEN TRUE
    ELSE IF Head(a) = Head(b) THEN StrLt(Tail(a), Tail(b))
    ELSE CharCode(Head(a)) < CharCode(Head(b))

\* a < b: two strings compare by code units, anything else as numbers
JsLt(a, b) ==
    IF a.t = "str" /\ b.t = "str" THEN StrLt(a.s, b.s)
    ELSE LET x == NumberOf(a)
             y == NumberOf(b)
         IN  x.t = "num" /\ y.t = "num" /\ x.n < y.n

JsGt(a, b) == JsLt(b, a)

(***************************************************************************)
(* Objects, JSON and localStorage.                                         *)
(***************************************************************************)
\* o[k]: a missing property reads as undefined
Get(o, k) == IF k \in DOMAIN o THEN o[k] ELSE Undef

\* {...o, k: v}
With(o, k, v) == [x \in (DOMAIN o) \cup {k} |-> IF x = k THEN v ELSE o[x]]

\* JSON.stringify of one object: undefined properties are dropped, NaN is null
JsonObj(o) ==
    [k \in {x \in DOMAIN o : o[x].t # "undef"} |->
        IF o[k].t = "nan" THEN Null ELSE o[k]]

\* the raw values a localStorage key can hold
LsAbsent  == [k |-> "absent"]               \* getItem returns null
LsEmpty   == [k |-> "empty"]                \* the empty string
LsGarbage == [k |-> "garbage"]              \* text JSON.parse rejects
LsJson(v) == [k |-> "json", v |-> v]        \* the JSON text of v

JsonArr(items) == [t |-> "arr", items |-> items]
JsonObject     == [t |-> "obj"]
JsonNumber     == [t |-> "num", n |-> 7]
JsonNull       == [t |-> "null"]

\* JSON.stringify(arr) for an array of objects
Stringify(arr) == LsJson(JsonArr([i \in 1..Len(arr) |-> JsonObj(arr[i])]))

\* localStorage.getItem / setItem
GetItem(store, key) == store[key]
SetItem(store, key, raw) == [store EXCEPT ![key] = raw]

Keys == {"ks_cards_v1", "ks_coupons_v1", "ks_cards"}

\* !raw: getItem gave null or the empty string
RawFalsy(raw) == raw.k \in {"absent", "empty"}

\* JSON.parse(raw) throws
ParseThrows(raw) == raw.k \in {"empty", "garbage"}

\* Array.isArray(JSON.parse(raw))
ParsesToArray(raw) == raw.k = "json" /\ raw.v.t = "arr"

(***************************************************************************)
(* uid(): ids are assumed fresh; the n-th id handed out is Uid(n).         *)
(***************************************************************************)
Uid(n) == << "u", Digits[n + 1] >>


(***************************************************************************)
(* Array helpers.                                                          *)
(***************************************************************************)
\* arr.findIndex(x => x.id === id), 1-based; 0 stands for JavaScript's -1
FindIndex(arr, id) ==
    IF \E i \in 1..Len(arr) : Get(arr[i], "id") = id
    THEN CHOOSE i \in 1..Len(arr) :
            /\ Get(arr[i], "id") = id
            /\ \A j \in 1..(i - 1) : Get(arr[j], "id") # id
    ELSE 0

\* arr.filter(x => x.id !== id)
RECURSIVE FilterOutId(_, _)
FilterOutId(arr, id) ==
    IF arr = << >> THEN << >>
    ELSE IF Get(Head(arr), "id") # id
         THEN << Head(arr) >> \o FilterOutId(Tail(arr), id)
         ELSE FilterOutId(Tail(arr), id)

\* the comparator both widgets hand to Array.prototype.sort:
\* (va>vb?1:va<vb?-1:0)*dir
Compare(va, vb, dir) ==
    (IF JsGt(va, vb) THEN 1 ELSE IF JsLt(va, vb) THEN -1 ELSE 0) * dir

\* one step of a stable insertion sort over << key, row >> pairs
RECURSIVE InsertPair(_, _, _)
InsertPair(sorted, x, dir) ==
    IF sorted = << >> THEN << x >>
    ELSE LET n == Len(sorted) IN
         IF Compare(sorted[n][1], x[1], dir) <= 0
         THEN Append(sorted, x)
         ELSE Append(InsertPair(SubSeq(sorted, 1, n - 1), x, dir), sorted[n])

RECURSIVE SortPairs(_, _, _)
SortPairs(done, todo, dir) ==
    IF todo = << >> THEN done
    ELSE SortPairs(InsertPair(done, Head(todo), dir), Tail(todo), dir)

\* a faulty variant of the sort: the rows stay in the order they came in
ArrayUnsorted(arr, keys, dir) == arr

\* Array.prototype.sort (stable) of rows by the given keys and direction
ArraySort(arr, keys, dir) ==
    LET pairs  == [i \in 1..Len(arr) |-> << keys[i], arr[i] >>]
        sorted == SortPairs(<< >>, pairs, dir)
    IN  [i \in 1..Len(arr) |-> sorted[i][2]]

Ids(arr) == {Get(arr[i], "id") : i \in 1..Len(arr)}

\* what the last handler was and what it showed
Ev(op, id, alert, confirm, done) ==
    [op |-> op, id |-> id, alert |-> alert, confirm |-> confirm, done |-> done]

(***************************************************************************)
(* The cards widget: public/cabinet-cards.js, lines 32-338.                *)
(***************************************************************************)
STORAGE_KEY == "ks_cards_v1"

\* the first three of the script's categories and districts
CATEGORIES == << << "c", "a" >>, << "r", "e" >>, << "f", "i" >> >>
DISTRICTS  == << << "c", "e" >>, << "s", "e" >>, << "z", "a" >> >>

StDraft      == << "d", "r" >>       \* the status 'draft'
StPublished  == << "p", "u" >>       \* the status 'published'
StModeration == << "m", "o" >>       \* the status 'under moderation'

\* the CSV header of the cards export
CardHeader == << << "i", "d" >>, << "n", "a", "m", "e" >>,
                 << "c", "a", "t", "e", "g", "o", "r", "y" >>,
                 << "d", "i", "s", "t", "r", "i", "c", "t" >>,
                 << "d", "i", "s", "c", "o", "u", "n", "t" >>,
                 << "s", "t", "a", "t", "u", "s" >>,
                 << "p", "u", "b", "l", "i", "s", "h", "e", "d" >>,
                 << "d", "e", "s", "c", "r", "i", "p", "t", "i", "o", "n" >>,
                 << "c", "r", "e", "a", "t", "e", "d", "A", "t" >>,
                 << "u", "p", "d", "a", "t", "e", "d", "A", "t" >> >>

\* the property each header column names
CardKeys == << "id", "name", "category", "district", "discount", "status",
               "published", "description", "createdAt", "updatedAt" >>

DemoCard(id, name, cat, dist, disc, st, pub) ==
    [id |-> Str(id), name |-> Str(name), category |-> Str(cat),
     district |-> Str(dist), discount |-> Num(disc), status |-> Str(st),
     published |-> Bool(pub), description |-> Str(E)]

\* demo(): three cards with fresh ids, without createdAt and updatedAt
demo ==
    << DemoCard(Uid(1), << "A", "b" >>, CATEGORIES[1], DISTRICTS[1], 15, StDraft, FALSE),
       DemoCard(Uid(2), << "B", "a" >>, CATEGORIES[2], DISTRICTS[2], 10, StPublished, TRUE),
       DemoCard(Uid(3), << "C", "c" >>, CATEGORIES[3], DISTRICTS[3], 20, StModeration, FALSE) >>

\* a faulty variant of load(): an empty list instead of the demo cards
loadNoDemo(store) ==
    LET raw == GetItem(store, STORAGE_KEY) IN
    IF ParsesToArray(raw) THEN raw.v.items ELSE << >>

\* load()
load(store) ==
    LET raw == GetItem(store, STORAGE_KEY) IN
    IF RawFalsy(raw) THEN demo
    ELSE IF ParseThrows(raw) THEN demo
    ELSE IF ParsesToArray(raw) THEN raw.v.items
    ELSE demo

\* a faulty variant of save(): nothing is written
saveNothing(store, arr) == store

\* save()
save(store, arr) == SetItem(store, STORAGE_KEY, Stringify(arr))

\* a faulty variant of the filter callback: the name is not lower-cased
cardShownExact(c, f) ==
    /\ ~(f.q # E /\ ~Includes(Get(c, "name").s, f.q))
    /\ ~(f.category # E /\ Get(c, "category") # Str(f.category))
    /\ ~(f.district # E /\ Get(c, "district") # Str(f.district))
    /\ ~(f.status # E /\ Get(c, "status") # Str(f.status))

\* the filter callback of render()
cardShown(c, f) ==
    /\ ~(f.q # E /\ ~Includes(ToLowerCase(Get(c, "name").s), f.q))
    /\ ~(f.category # E /\ Get(c, "category") # Str(f.category))
    /\ ~(f.district # E /\ Get(c, "district") # Str(f.district))
    /\ ~(f.status # E /\ Get(c, "status") # Str(f.status))

RECURSIVE filterCards(_, _)
filterCards(arr, f) ==
    IF arr = << >> THEN << >>
    ELSE IF cardShown(Head(arr), f)
         THEN << Head(arr) >> \o filterCards(Tail(arr), f)
         ELSE filterCards(Tail(arr), f)

\* the sort key of render(): a[sort.by], as a number for the discount column
cardSortKey(c, by) ==
    IF by = "discount" THEN NumberOf(Or(Get(c, by), Num(0))) ELSE Get(c, by)

\* render(): the rows drawn into the table body
render(arr, f, srt) ==
    LET shown == filterCards(arr, f)
        keys  == [i \in 1..Len(shown) |-> cardSortKey(shown[i], srt.by)]
    IN  ArraySort(shown, keys, IF srt.dir = "asc" THEN 1 ELSE -1)


(***************************************************************************)
(* The card form.                                                          *)
(***************************************************************************)
\* select.value = v: a value that is no option leaves the select empty
SelectValue(options, v) ==
    IF \E i \in 1..Len(options) : options[i] = v THEN v ELSE E

\* form.reset(): every field back to the page's default (the selects filled
\* by fillSelect show their first option; the hidden id keeps its value)
formReset(form) ==
    [fId |-> form.fId, fName |-> E, fCategory |-> CATEGORIES[1],
     fDistrict |-> DISTRICTS[1], fDiscount |-> E, fDesc |-> E,
     fPublished |-> FALSE, fStatus |-> StDraft]

\* closeModal(): form.reset(); fId.value=''
closeModalForm(form) == [formReset(form) EXCEPT !.fId = E]

\* toForm(card)
toForm(card) ==
    [fId        |-> ToStr(Or(Get(card, "id"), Str(E))),
     fName      |-> ToStr(Or(Get(card, "name"), Str(E))),
     fCategory  |-> SelectValue(CATEGORIES, ToStr(Or(Get(card, "category"), Str(E)))),
     fDistrict  |-> SelectValue(DISTRICTS, ToStr(Or(Get(card, "district"), Str(E)))),
     fDiscount  |-> ToStr(Nullish(Get(card, "discount"), Str(E))),
     fDesc      |-> ToStr(Or(Get(card, "description"), Str(E))),
     fPublished |-> Truthy(Get(card, "published")),
     fStatus    |-> ToStr(Or(Get(card, "status"), Str(StDraft)))]

\* the discount fromForm() reads: null for a blank field, else Number(value)
formDiscount(form) ==
    IF Trim(form.fDiscount) = E THEN Null ELSE ToNumber(form.fDiscount)

\* a faulty variant of the range test: 100 passes
discountRejectedLax(d) ==
    d.t # "null" /\ (d.t = "nan" \/ d.n < 0 \/ d.n > 100)

\* discount!=null && (isNaN(discount) || discount<0 || discount>99)
discountRejected(d) ==
    d.t # "null" /\ (d.t = "nan" \/ d.n < 0 \/ d.n > 99)

\* fromForm() returns null after an alert
fromFormRejects(form) ==
    Trim(form.fName) = E \/ discountRejected(formDiscount(form))

\* cards.find(x=>x.id===fId.value)?.createdAt
createdAtOf(arr, id) ==
    LET i == FindIndex(arr, Str(id)) IN
    IF i = 0 THEN Undef ELSE Get(arr[i], "createdAt")

\* fromForm(): the object built from a form that passed validation
fromForm(form, arr, now, fresh) ==
    [id          |-> Str(IF form.fId # E THEN form.fId ELSE fresh),
     name        |-> Str(Trim(form.fName)),
     category    |-> Str(form.fCategory),
     district    |-> Str(form.fDistrict),
     discount    |-> formDiscount(form),
     description |-> Str(Trim(form.fDesc)),
     published   |-> Bool(form.fPublished),
     status      |-> Str(IF form.fStatus # E THEN form.fStatus
                         ELSE IF form.fPublished THEN StPublished ELSE StDraft),
     updatedAt   |-> Str(ISO(now)),
     createdAt   |-> IF form.fId # E
                     THEN Or(createdAtOf(arr, form.fId), Str(ISO(now)))
                     ELSE Str(ISO(now))]

\* a faulty variant of the upsert: the edited record moves to the front
upsertFrontMove(arr, obj) == << obj >> \o FilterOutId(arr, obj.id)

\* if (idx>=0) cards[idx]=obj; else cards.unshift(obj)
upsertFront(arr, obj) ==
    LET idx == FindIndex(arr, obj.id) IN
    IF idx > 0 THEN [arr EXCEPT ![idx] = obj] ELSE << obj >> \o arr

(***************************************************************************)
(* CSV export and import.                                                  *)
(***************************************************************************)
CRLF == << "\r", "\n" >>

RECURSIVE Join(_, _)
Join(parts, sep) ==
    IF parts = << >> THEN E
    ELSE IF Len(parts) = 1 THEN parts[1]
    ELSE parts[1] \o sep \o Join(Tail(parts), sep)

\* v.replace(/"/g,'""')
RECURSIVE DoubleQuotes(_)
DoubleQuotes(s) ==
    IF s = E THEN E
    ELSE (IF Head(s) = "\"" THEN << "\"", "\"" >> ELSE << Head(s) >>)
         \o DoubleQuotes(Tail(s))

Quoted(s) == << "\"" >> \o DoubleQuotes(s) \o << "\"" >>

\* one cell of the cards export: strings are quoted, null and undefined are
\* empty, anything else is joined as String(v)
cardCell(v) ==
    IF v.t = "str" THEN Quoted(v.s)
    ELSE IF v.t \in {"undef", "null"} THEN E
    ELSE ToStr(v)

\* the text of cards.csv
exportCards(arr) ==
    Join(<< Join(CardHeader, << "," >>) >> \o
         [i \in 1..Len(arr) |->
             Join([j \in 1..Len(CardKeys) |-> cardCell(Get(arr[i], CardKeys[j]))],
                  << "," >>)],
         CRLF)

\* text.split(/\r?\n/): the text is cut at every line feed, and a carriage
\* return right before the line feed belongs to the separator
LineFeeds(text) == {i \in 1..Len(text) : text[i] = "\n"}

SplitLines(text) ==
    LET lf     == LineFeeds(text)
        nth(k) == IF k > Cardinality(lf) THEN Len(text) + 1
                  ELSE CHOOSE i \in lf : Cardinality({j \in lf : j < i}) = k - 1
        from(k) == IF k = 1 THEN 1 ELSE nth(k - 1) + 1
        to(k)   == LET e == nth(k) - 1 IN
                   IF k <= Cardinality(lf) /\ e >= from(k) /\ text[e] = "\r"
                   THEN e - 1 ELSE e
    IN  [k \in 1..(Cardinality(lf) + 1) |-> SubSeq(text, from(k), to(k))]

\* .filter(Boolean)
RECURSIVE DropEmpty(_)
DropEmpty(lines) ==
    IF lines = << >> THEN << >>
    ELSE IF Head(lines) = E THEN DropEmpty(Tail(lines))
    ELSE << Head(lines) >> \o DropEmpty(Tail(lines))

\* a faulty variant of the loop body: a quote inside a quoted field always
\* ends the field, a doubled quote is not read as one quote
tokenStepNoDoubling(st, line, i) ==
    LET ch == line[i] IN
    IF st.inQ
    THEN IF ch = "\"" THEN [st EXCEPT !.inQ = FALSE]
         ELSE [st EXCEPT !.cur = Append(st.cur, ch)]
    ELSE IF ch = "," THEN [st EXCEPT !.out = Append(st.out, st.cur), !.cur = E]
         ELSE IF ch = "\"" THEN [st EXCEPT !.inQ = TRUE]
         ELSE [st EXCEPT !.cur = Append(st.cur, ch)]

\* the body of the tokenizer's for loop at index i; skip stands for the i++
\* that steps over the second quote of a doubled quote
tokenStep(st, line, i) ==
    LET ch == line[i] IN
    IF st.skip THEN [st EXCEPT !.skip = FALSE]
    ELSE IF st.inQ
    THEN IF ch = "\"" /\ i < Len(line) /\ line[i + 1] = "\""
         THEN [st EXCEPT !.cur = Append(st.cur, "\""), !.skip = TRUE]
         ELSE IF ch = "\"" THEN [st EXCEPT !.inQ = FALSE]
         ELSE [st EXCEPT !.cur = Append(st.cur, ch)]
    ELSE IF ch = "," THEN [st EXCEPT !.out = Append(st.out, st.cur), !.cur = E]
         ELSE IF ch = "\"" THEN [st EXCEPT !.inQ = TRUE]
         ELSE [st EXCEPT !.cur = Append(st.cur, ch)]

\* the for loop over the indices lo..hi, left to right (cut in halves so that
\* the evaluation stays shallow)
RECURSIVE tokenLoop(_, _, _, _)
tokenLoop(st, line, lo, hi) ==
    IF lo > hi THEN st
    ELSE IF lo = hi THEN tokenStep(st, line, lo)
    ELSE LET mid  == (lo + hi) \div 2
             left == tokenLoop(st, line, lo, mid)
         IN  IF left.skip \in BOOLEAN     \* the left half is run first
             THEN tokenLoop(left, line, mid + 1, hi)
             ELSE left

\* the hand-rolled tokenizer of one line
tokenize(line) ==
    LET st == tokenLoop([cur |-> E, inQ |-> FALSE, out |-> << >>, skip |-> FALSE],
                        line, 1, Len(line))
    IN  Append(st.out, st.cur)

\* the rows of an imported text
parseCsv(text) ==
    LET lines == DropEmpty(SplitLines(text)) IN
    [i \in 1..Len(lines) |-> tokenize(lines[i])]

\* a faulty variant of r[idx(k)]: the column is taken at its place in the
\* export order, whatever the header row of the file says
cellByPosition(header, r, k) ==
    IF \E i \in 1..Len(CardHeader) : CardHeader[i] = k
    THEN LET i == CHOOSE i \in 1..Len(CardHeader) : CardHeader[i] = k
         IN  IF i <= Len(r) THEN Str(r[i]) ELSE Undef
    ELSE Undef

\* r[idx(k)]: header.indexOf(k) is -1 for a missing column and r[-1] is
\* undefined, as is a cell beyond the end of a short row
cell(header, r, k) ==
    IF \E i \in 1..Len(header) : header[i] = k
    THEN LET i == CHOOSE i \in 1..Len(header) :
                     header[i] = k /\ \A j \in 1..(i - 1) : header[j] # k
         IN  IF i <= Len(r) THEN Str(r[i]) ELSE Undef
    ELSE Undef

\* does the row take its id from uid()?
rowNeedsUid(header, r) == ~Truthy(cell(header, r, CardHeader[1]))

\* the object the cards import builds from one row
cardFromRow(header, r, now, fresh) ==
    [id          |-> Or(cell(header, r, CardHeader[1]), Str(fresh)),
     name        |-> Or(cell(header, r, CardHeader[2]), Str(E)),
     category    |-> Or(cell(header, r, CardHeader[3]), Str(E)),
     district    |-> Or(cell(header, r, CardHeader[4]), Str(E)),
     discount    |-> IF Truthy(cell(header, r, CardHeader[5]))
                     THEN NumberOf(cell(header, r, CardHeader[5])) ELSE Null,
     status      |-> Or(cell(header, r, CardHeader[6]), Str(StDraft)),
     published   |-> Bool(ToLowerCase(ToStr(Or(cell(header, r, CardHeader[7]), Str(E))))
                          = << "t", "r", "u", "e" >>),
     description |-> Or(cell(header, r, CardHeader[8]), Str(E)),
     createdAt   |-> Or(cell(header, r, CardHeader[9]), Str(ISO(now))),
     updatedAt   |-> Str(ISO(now))]

\* a faulty variant of the upsert: a row with a new id goes to the front
upsertBackUnshift(arr, obj) ==
    LET pos == FindIndex(arr, obj.id) IN
    IF pos > 0 THEN [arr EXCEPT ![pos] = obj] ELSE << obj >> \o arr

\* a faulty variant of the upsert: every row is pushed
upsertBackAlwaysPush(arr, obj) == Append(arr, obj)

\* if (pos>=0) cards[pos]=obj; else cards.push(obj)
upsertBack(arr, obj) ==
    LET pos == FindIndex(arr, obj.id) IN
    IF pos > 0 THEN [arr EXCEPT ![pos] = obj] ELSE Append(arr, obj)

\* rows.forEach(...) of the cards import: the collection and the number of
\* ids handed out after the rows
RECURSIVE importCardRows(_, _, _, _, _)
importCardRows(header, rs, arr, ctr, now) ==
    IF rs = << >> THEN [arr |-> arr, ctr |-> ctr]
    ELSE LET r    == Head(rs)
             need == rowNeedsUid(header, r)
             obj  == cardFromRow(header, r, now, Uid(ctr + 1))
             ctr2 == IF need THEN ctr + 1 ELSE ctr
         IN  importCardRows(header, Tail(rs),
                            IF Truthy(obj.name) THEN upsertBack(arr, obj) ELSE arr,
                            ctr2, now)

\* the cards import of a text: header = rows.shift(), then every row
importCards(text, arr, ctr, now) ==
    LET rs == parseCsv(text) IN
    IF rs = << >> THEN [arr |-> arr, ctr |-> ctr]
    ELSE importCardRows(Head(rs), Tail(rs), arr, ctr, now)


(***************************************************************************)
(* What the user and the environment can supply.                           *)
(***************************************************************************)
NoFile == [name |-> "none"]
File(name, text) == [name |-> name, text |-> text]


\* what a user types into the card form before pressing save
CardInput(name, cat, dist, disc, desc, pub, st) ==
    [name |-> name, category |-> cat, district |-> dist, discount |-> disc,
     desc |-> desc, published |-> pub, status |-> st]

ValidCardInputs ==
    { CardInput(<< " ", "D", "a", " " >>, CATEGORIES[1], DISTRICTS[1], << "5" >>,
                E, TRUE, StPublished),
      CardInput(<< "a", ",", "\"" >>, CATEGORIES[2], DISTRICTS[2], << " " >>,
                << "x", "\n", "y" >>, FALSE, E),
      CardInput(<< "B", "a" >>, CATEGORIES[1], DISTRICTS[3], << "9", "9" >>,
                E, FALSE, StDraft),
      CardInput(<< "Z" >>, CATEGORIES[3], DISTRICTS[1], << "0" >>,
                E, TRUE, E) }

InvalidCardInputs ==
    { CardInput(E, CATEGORIES[1], DISTRICTS[1], << "5" >>, E, FALSE, StDraft),
      CardInput(<< " ", " " >>, CATEGORIES[1], DISTRICTS[1], E, E, FALSE, StDraft),
      CardInput(<< "D", "a" >>, CATEGORIES[1], DISTRICTS[1], << "1", "0", "0" >>,
                E, FALSE, StDraft),
      CardInput(<< "D", "a" >>, CATEGORIES[1], DISTRICTS[1], << "-", "1" >>,
                E, FALSE, StDraft),
      CardInput(<< "D", "a" >>, CATEGORIES[1], DISTRICTS[1], << "a", "b" >>,
                E, FALSE, StDraft) }

CardInputs == ValidCardInputs \cup InvalidCardInputs

\* the form after the user typed inp into it (the hidden id is not typed)
typeCard(form, inp) ==
    [fId |-> form.fId, fName |-> inp.name, fCategory |-> inp.category,
     fDistrict |-> inp.district, fDiscount |-> inp.discount, fDesc |-> inp.desc,
     fPublished |-> inp.published, fStatus |-> inp.status]

\* a card a previous session left in storage
StoredCard ==
    [id |-> Str(<< "p", "1" >>), name |-> Str(<< "P", "a" >>),
     category |-> Str(CATEGORIES[1]), district |-> Str(DISTRICTS[2]),
     discount |-> Null, status |-> Str(StPublished), published |-> Bool(TRUE),
     description |-> Str(<< "s", "a", "y", " ", "\"", "h", "i", "\"" >>),
     createdAt |-> Str(ISO(0)), updatedAt |-> Str(ISO(0))]

\* a stored card whose id is a number: its row's data attribute is the string
\* "7", which no id of the collection equals under ===
NumIdCard == [StoredCard EXCEPT !.id = Num(7), !.name = Str(<< "N", "u" >>),
                                !.description = Str(E)]

\* what the key can hold when the page loads
CardsStored ==
    { LsAbsent, LsEmpty, LsGarbage, LsJson(JsonObject), LsJson(JsonNull),
      LsJson(JsonArr(<< StoredCard, NumIdCard >>)) }

\* CSV files a user may pick besides the last export
CsvLine(cells) == Join(cells, << "," >>)

CardFile1 ==
    Join(<< CsvLine(CardHeader),
            CsvLine(<< Quoted(<< "n", "1" >>), Quoted(<< "N", "e" >>), Quoted(CATEGORIES[1]),
                       Quoted(DISTRICTS[1]), << "7" >>, Quoted(StDraft), << "t", "r", "u", "e" >>,
                       Quoted(E), Quoted(ISO(0)), Quoted(ISO(0)) >>),
            CsvLine(<< Quoted(<< "n", "2" >>), Quoted(E), Quoted(CATEGORIES[1]),
                       Quoted(DISTRICTS[1]), E, Quoted(StDraft), << "f", "a", "l", "s", "e" >>,
                       Quoted(E), Quoted(ISO(0)), Quoted(ISO(0)) >>) >>,
         CRLF)

\* a file without an id column
CardFile2 ==
    Join(<< CsvLine(<< CardHeader[2], CardHeader[5] >>),
            CsvLine(<< << "M", "e" >>, << "1", "2", "0" >> >>) >>,
         << "\n" >>)

CardFiles == { File("cards.csv", CardFile1), File("cards.csv", CardFile2) }

SortColumns == {"name", "category", "district", "discount", "status"}

(***************************************************************************)
(* The handlers of the cards widget.                                       *)
(***************************************************************************)
othersIdleCards == UNCHANGED << page, couponsVars, ksVars, serverVars, fnVars, auxVars >>

\* every handler runs at its own instant: the clock moves on with each event
Elapse == clock < MaxClock /\ clock' = clock + 1

\* btnAdd click
BtnAdd ==
    /\ page = "cards"
    /\ Elapse
    /\ cForm' = [closeModalForm(cForm) EXCEPT !.fStatus = StDraft, !.fPublished = FALSE]
    /\ cModal' = TRUE
    /\ last' = Ev("add", Str(E), FALSE, "none", FALSE)
    /\ UNCHANGED << ls, uidCtr, download, cards, cSort, cFilters, cTbody >>
    /\ othersIdleCards

\* the user fills the form in, then btnSave click
BtnSave(inp) ==
    /\ page = "cards"
    /\ Elapse
    /\ LET form == typeCard(cForm, inp) IN
       IF fromFormRejects(form)
       THEN /\ cForm' = form
            /\ last' = Ev("save", Str(form.fId), TRUE, "none", FALSE)
            /\ UNCHANGED << ls, uidCtr, cards, cTbody, cModal >>
       ELSE LET obj == fromForm(form, cards, clock, Uid(uidCtr + 1))
                arr == upsertFront(cards, obj)
            IN  /\ Len(arr) <= MaxCards
                /\ form.fId = E => uidCtr < 3 + MaxUid
                /\ cards' = arr
                /\ uidCtr' = IF form.fId = E THEN uidCtr + 1 ELSE uidCtr
                /\ ls' = save(ls, arr)
                /\ cTbody' = render(arr, cFilters, cSort)
                /\ cForm' = closeModalForm(form)
                /\ cModal' = FALSE
                /\ last' = Ev("save", obj.id, FALSE, "none", TRUE)
    /\ UNCHANGED << download, cSort, cFilters >>
    /\ othersIdleCards

\* editModal click on [data-close]
ModalClose ==
    /\ page = "cards"
    /\ Elapse
    /\ cModal
    /\ cForm' = closeModalForm(cForm)
    /\ cModal' = FALSE
    /\ last' = Ev("close", Str(E), FALSE, "none", FALSE)
    /\ UNCHANGED << ls, uidCtr, download, cards, cSort, cFilters, cTbody >>
    /\ othersIdleCards

\* the data-edit / data-del attribute of a drawn row
rowAttr(r) == Str(ToStr(Get(r, "id")))

\* tbody click on [data-edit]
TbodyEdit(id) ==
    /\ page = "cards"
    /\ Elapse
    /\ LET i == FindIndex(cards, id) IN
       IF i > 0
       THEN cForm' = toForm(cards[i]) /\ cModal' = TRUE
       ELSE UNCHANGED << cForm, cModal >>
    /\ last' = Ev("edit", id, FALSE, "none", FALSE)
    /\ UNCHANGED << ls, uidCtr, download, cards, cSort, cFilters, cTbody >>
    /\ othersIdleCards

\* a faulty variant of the filter: nothing is removed
removeCardNone(arr, id) == arr

\* cards = cards.filter(x=>x.id!==id)
removeCard(arr, id) == FilterOutId(arr, id)

\* tbody click on [data-del]; answer is what the user tells confirm()
TbodyDel(id, answer) ==
    /\ page = "cards"
    /\ Elapse
    /\ LET found == FindIndex(cards, id) > 0 IN
       IF found /\ answer
       THEN LET arr == removeCard(cards, id) IN
            /\ cards' = arr
            /\ ls' = save(ls, arr)
            /\ cTbody' = render(arr, cFilters, cSort)
            /\ last' = Ev("del", id, FALSE, "yes", TRUE)
       ELSE /\ last' = Ev("del", id, FALSE, IF found THEN "no" ELSE "none", FALSE)
            /\ UNCHANGED << ls, cards, cTbody >>
    /\ UNCHANGED << uidCtr, download, cSort, cFilters, cForm, cModal >>
    /\ othersIdleCards

\* a faulty variant of the toggle: the direction flips on every click,
\* whichever column is clicked
sortClickFlipAlways(srt, by) ==
    [by |-> by, dir |-> IF srt.dir = "asc" THEN "desc" ELSE "asc"]

\* sort.dir = (sort.by===by && sort.dir==='asc') ? 'desc' : 'asc'; sort.by = by
sortClick(srt, by) ==
    [by |-> by, dir |-> IF srt.by = by /\ srt.dir = "asc" THEN "desc" ELSE "asc"]

\* th[data-sort] click
SortClick(by) ==
    /\ page = "cards"
    /\ Elapse
    /\ cSort' = sortClick(cSort, by)
    /\ cTbody' = render(cards, cFilters, cSort')
    /\ last' = Ev("sort", Str(<< by >>), FALSE, "none", FALSE)
    /\ UNCHANGED << ls, uidCtr, download, cards, cFilters, cForm, cModal >>
    /\ othersIdleCards

\* the four filter handlers: input on the search box, change on a select
FilterChange(field, typed) ==
    /\ page = "cards"
    /\ Elapse
    /\ cFilters' = [cFilters EXCEPT ![field] =
                        IF field = "q" THEN ToLowerCase(Trim(typed)) ELSE typed]
    /\ cFilters' # cFilters
    /\ cTbody' = render(cards, cFilters', cSort)
    /\ last' = Ev(IF field = "q" THEN "search" ELSE "filter", Str(typed), FALSE, "none", FALSE)
    /\ UNCHANGED << ls, uidCtr, download, cards, cSort, cForm, cModal >>
    /\ othersIdleCards

FilterChoices ==
    { << "q", E >>, << "q", << " ", "A", " " >> >>, << "q", << "c" >> >>,
      << "category", E >>, << "category", CATEGORIES[1] >>,
      << "district", E >>, << "district", DISTRICTS[1] >>,
      << "status", E >>, << "status", StDraft >> }

\* btnExport click
BtnExport ==
    /\ page = "cards"
    /\ Elapse
    /\ download' = File("cards.csv", exportCards(cards))
    /\ last' = Ev("export", Str(E), FALSE, "none", FALSE)
    /\ UNCHANGED << ls, uidCtr, cardsVars >>
    /\ othersIdleCards

\* importInput change with a chosen file
ImportCsv(file) ==
    /\ page = "cards"
    /\ Elapse
    /\ file # NoFile
    /\ LET r == importCards(file.text, cards, uidCtr, clock) IN
       /\ Len(r.arr) <= MaxCards
       /\ r.ctr <= 3 + MaxUid
       /\ cards' = r.arr
       /\ uidCtr' = r.ctr
       /\ ls' = save(ls, r.arr)
       /\ cTbody' = render(r.arr, cFilters, cSort)
    /\ last' = Ev("import", Str(E), TRUE, "none", TRUE)
    /\ UNCHANGED << download, cSort, cFilters, cForm, cModal >>
    /\ othersIdleCards

NextCards ==
    \/ BtnAdd
    \/ \E inp \in CardInputs : BtnSave(inp)
    \/ ModalClose
    \/ \E r \in {cTbody[i] : i \in 1..Len(cTbody)} : TbodyEdit(rowAttr(r))
    \/ \E id \in {rowAttr(cTbody[i]) : i \in 1..Len(cTbody)} :
           \E answer \in BOOLEAN : TbodyDel(id, answer)
    \/ BtnExport
    \/ \E file \in CardFiles \cup {download} : ImportCsv(file)

\* the table view: sorting, filtering, and deleting a drawn row
NextCardsView ==
    \/ \E by \in SortColumns : SortClick(by)
    \/ \E c \in FilterChoices : FilterChange(c[1], c[2])
    \/ \E id \in {rowAttr(cTbody[i]) : i \in 1..Len(cTbody)} :
           \E answer \in BOOLEAN : TbodyDel(id, answer)

(***************************************************************************)
(* The coupons widget (key ks_coupons_v1).                                 *)
(***************************************************************************)
STORAGE_KEY_COUPONS == "ks_coupons_v1"

\* the clock ticks DayTicks times a day (the script's 24*3600*1000 ms)
DayTicks == 2

\* a date string 'YYYY-MM-DD': the day number d is written D<d>
DateStr(d) == << "D", Digits[d + 1] >>

IsDateStr(s) == Len(s) = 2 /\ s[1] = "D" /\ IsDigit(s[2])

\* new Date(s).getTime(): NaN for an invalid date
DateTime(s) == IF IsDateStr(s) THEN Num(DigitVal(s[2]) * DayTicks) ELSE NaN

\* todayStr()
todayStr(now) == DateStr(now \div DayTicks)

\* parseDate(v): null for a falsy value and for an invalid date
parseDate(v) ==
    IF ~Truthy(v) THEN Null
    ELSE LET d == DateTime(ToStr(v)) IN IF d.t = "nan" THEN Null ELSE d

StDisabled  == << "o", "f", "f" >>      \* 'disabled'
StScheduled == << "p", "l", "a", "n" >> \* 'scheduled'
StExpired   == << "e", "n", "d" >>      \* 'expired'
StExhausted == << "l", "i", "m" >>      \* 'limit exhausted'
StActive    == << "a", "c", "t" >>      \* 'active'

\* a faulty variant of statusOf: the dates are looked at before the
\* published flag
statusOfDatesFirst(c, now) ==
    LET st == parseDate(Get(c, "start"))
        en == parseDate(Get(c, "end"))
        used == NumberOf(Or(Get(c, "used"), Num(0)))
        max  == NumberOf(Get(c, "maxUses"))
    IN  IF st.t = "num" /\ now < st.n THEN StScheduled
        ELSE IF en.t = "num" /\ now > en.n + DayTicks - 1 THEN StExpired
        ELSE IF ~Truthy(Get(c, "published")) THEN StDisabled
        ELSE IF Truthy(Get(c, "maxUses")) /\ used.t = "num" /\ max.t = "num"
                /\ used.n >= max.n THEN StExhausted
        ELSE StActive

\* a faulty variant of statusOf: the coupon expires when its end day begins
statusOfEndExclusive(c, now) ==
    LET st == parseDate(Get(c, "start"))
        en == parseDate(Get(c, "end"))
        used == NumberOf(Or(Get(c, "used"), Num(0)))
        max  == NumberOf(Get(c, "maxUses"))
    IN  IF ~Truthy(Get(c, "published")) THEN StDisabled
        ELSE IF st.t = "num" /\ now < st.n THEN StScheduled
        ELSE IF en.t = "num" /\ now > en.n - 1 THEN StExpired
        ELSE IF Truthy(Get(c, "maxUses")) /\ used.t = "num" /\ max.t = "num"
                /\ used.n >= max.n THEN StExhausted
        ELSE StActive

\* statusOf(c) at the instant now
statusOf(c, now) ==
    LET st == parseDate(Get(c, "start"))
        en == parseDate(Get(c, "end"))
        used == NumberOf(Or(Get(c, "used"), Num(0)))
        max  == NumberOf(Get(c, "maxUses"))
    IN  IF ~Truthy(Get(c, "published")) THEN StDisabled
        ELSE IF st.t = "num" /\ now < st.n THEN StScheduled
        ELSE IF en.t = "num" /\ now > en.n + DayTicks - 1 THEN StExpired
        ELSE IF Truthy(Get(c, "maxUses")) /\ used.t = "num" /\ max.t = "num"
                /\ used.n >= max.n THEN StExhausted
        ELSE StActive

Percent == << "p", "c" >>       \* the discount type 'percent'
Amount  == << "a", "m" >>       \* the discount type 'amount'

CouponHeader ==
    << << "i", "d" >>, << "t", "i", "t", "l", "e" >>, << "c", "o", "d", "e" >>,
       << "d", "i", "s", "c", "o", "u", "n", "t", "T", "y", "p", "e" >>,
       << "v", "a", "l", "u", "e" >>, << "s", "t", "a", "r", "t" >>, << "e", "n", "d" >>,
       << "m", "a", "x", "U", "s", "e", "s" >>, << "u", "s", "e", "d" >>,
       << "m", "i", "n", "P", "u", "r", "c", "h", "a", "s", "e" >>,
       << "p", "u", "b", "l", "i", "s", "h", "e", "d" >>,
       << "d", "e", "s", "c", "r", "i", "p", "t", "i", "o", "n" >>,
       << "c", "r", "e", "a", "t", "e", "d", "A", "t" >>,
       << "u", "p", "d", "a", "t", "e", "d", "A", "t" >> >>

CouponKeys == << "id", "title", "code", "discountType", "value", "start", "end",
                 "maxUses", "used", "minPurchase", "published", "description",
                 "createdAt", "updatedAt" >>

DemoCoupon(id, title, code, type, value, start, max, used, min, pub) ==
    [id |-> Str(id), title |-> Str(title), code |-> Str(code),
     discountType |-> Str(type), value |-> Num(value), start |-> Str(start),
     end |-> Str(E), maxUses |-> Num(max), used |-> Num(used),
     minPurchase |-> Num(min), published |-> Bool(pub), description |-> Str(E)]

\* demo() of the coupons widget, built at the instant now
demoCoupons(now) ==
    << DemoCoupon(Uid(1), << "K", "o" >>, << "C", "1", "5" >>, Percent, 15,
                  todayStr(now), 0, 0, 0, TRUE),
       DemoCoupon(Uid(2), << "L", "u" >>, << "L", "2" >>, Amount, 200,
                  todayStr(now), 100, 3, 800, TRUE),
       DemoCoupon(Uid(3), << "F", "i" >>, << "F", "1", "0" >>, Percent, 10,
                  E, 0, 0, 0, FALSE) >>

\* load() of the coupons widget
loadCoupons(store, now) ==
    LET raw == GetItem(store, STORAGE_KEY_COUPONS) IN
    IF RawFalsy(raw) THEN demoCoupons(now)
    ELSE IF ParseThrows(raw) THEN demoCoupons(now)
    ELSE IF ParsesToArray(raw) THEN raw.v.items
    ELSE demoCoupons(now)

\* save() of the coupons widget
saveCoupons(store, arr) == SetItem(store, STORAGE_KEY_COUPONS, Stringify(arr))

\* the filter callback of the coupons render()
couponShown(c, f, now) ==
    /\ ~(f.q # E /\ ~Includes(ToLowerCase(ToStr(Get(c, "title")) \o << " " >>
                                          \o ToStr(Get(c, "code"))), f.q))
    /\ ~(f.status # E /\ statusOf(c, now) # f.status)

RECURSIVE filterCoupons(_, _, _)
filterCoupons(arr, f, now) ==
    IF arr = << >> THEN << >>
    ELSE IF couponShown(Head(arr), f, now)
         THEN << Head(arr) >> \o filterCoupons(Tail(arr), f, now)
         ELSE filterCoupons(Tail(arr), f, now)

\* the switch of the coupons sort comparator
couponSortKey(c, by, now) ==
    CASE by = "title"        -> Or(Get(c, "title"), Str(E))
      [] by = "code"         -> Or(Get(c, "code"), Str(E))
      [] by = "discountType" -> Or(Get(c, "discountType"), Str(E))
      [] by = "value"        -> NumberOf(Or(Get(c, "value"), Num(0)))
      [] by = "status"       -> Str(statusOf(c, now))
      [] by = "usage"        -> NumberOf(Or(Get(c, "used"), Num(0)))
      [] by = "period"       -> Str(ToStr(Or(Get(c, "start"), Str(E))) \o << "|" >>
                                    \o ToStr(Or(Get(c, "end"), Str(E))))
      [] OTHER               -> Str(E)

\* render() of the coupons widget
renderCoupons(arr, f, srt, now) ==
    LET shown == filterCoupons(arr, f, now)
        keys  == [i \in 1..Len(shown) |-> couponSortKey(shown[i], srt.by, now)]
    IN  ArraySort(shown, keys, IF srt.dir = "asc" THEN 1 ELSE -1)

\* toForm(c) of the coupons widget
toFormCoupon(c) ==
    [id           |-> ToStr(Or(Get(c, "id"), Str(E))),
     title        |-> ToStr(Or(Get(c, "title"), Str(E))),
     code         |-> ToStr(Or(Get(c, "code"), Str(E))),
     discountType |-> ToStr(Or(Get(c, "discountType"), Str(Percent))),
     value        |-> ToStr(Nullish(Get(c, "value"), Str(E))),
     start        |-> ToStr(Or(Get(c, "start"), Str(E))),
     end          |-> ToStr(Or(Get(c, "end"), Str(E))),
     maxUses      |-> ToStr(Nullish(Get(c, "maxUses"), Num(0))),
     minPurchase  |-> ToStr(Nullish(Get(c, "minPurchase"), Num(0))),
     published    |-> Truthy(Get(c, "published")),
     description  |-> ToStr(Or(Get(c, "description"), Str(E)))]

\* the value fromForm() reads: null for an empty field, else Number(value)
formValue(form) == IF form.value = E THEN Null ELSE ToNumber(form.value)

\* a faulty variant of the value test: 0 passes
valueRejectedLax(v) == v.t = "null" \/ v.t = "nan" \/ v.n < 0

\* value===null || isNaN(value) || value<=0
valueRejected(v) == v.t = "null" \/ v.t = "nan" \/ v.n <= 0

\* start && end && new Date(start) > new Date(end)
periodRejected(form) ==
    LET st == Trim(form.start)
        en == Trim(form.end)
    IN  st # E /\ en # E /\ JsGt(DateTime(st), DateTime(en))

\* fromForm() of the coupons widget returns null after an alert
fromFormCouponRejects(form) ==
    \/ Trim(form.title) = E
    \/ ToUpperCase(Trim(form.code)) = E
    \/ valueRejected(formValue(form))
    \/ periodRejected(form)

\* coupons.find(x=>x.id===f.id.value)?.k
foundField(arr, id, k) ==
    LET i == FindIndex(arr, Str(id)) IN
    IF i = 0 THEN Undef ELSE Get(arr[i], k)

\* fromForm() of the coupons widget: the object built from a valid form
fromFormCoupon(form, arr, now, fresh) ==
    [id           |-> Str(IF form.id # E THEN form.id ELSE fresh),
     title        |-> Str(Trim(form.title)),
     code         |-> Str(ToUpperCase(Trim(form.code))),
     discountType |-> Str(IF form.discountType # E THEN form.discountType ELSE Percent),
     value        |-> formValue(form),
     start        |-> Str(Trim(form.start)),
     end          |-> Str(Trim(form.end)),
     maxUses      |-> ToNumber(IF form.maxUses # E THEN form.maxUses ELSE << "0" >>),
     used         |-> Or(foundField(arr, form.id, "used"), Num(0)),
     minPurchase  |-> ToNumber(IF form.minPurchase # E THEN form.minPurchase ELSE << "0" >>),
     published    |-> Bool(form.published),
     description  |-> Str(Trim(form.description)),
     updatedAt    |-> Str(ISO(now)),
     createdAt    |-> Or(foundField(arr, form.id, "createdAt"), Str(ISO(now)))]

\* one cell of the coupons export: null and undefined become '', and every
\* string, that one included, is quoted
couponCell(v) ==
    LET w == IF v.t \in {"undef", "null"} THEN Str(E) ELSE v IN
    IF w.t = "str" THEN Quoted(w.s) ELSE ToStr(w)

\* the text of coupons.csv
exportCoupons(arr) ==
    Join(<< Join(CouponHeader, << "," >>) >> \o
         [i \in 1..Len(arr) |->
             Join([j \in 1..Len(CouponKeys) |-> couponCell(Get(arr[i], CouponKeys[j]))],
                  << "," >>)],
         CRLF)

\* r[idx(k)] ? Number(r[idx(k)]) : dflt
numberCell(header, r, k, dflt) ==
    IF Truthy(cell(header, r, k)) THEN NumberOf(cell(header, r, k)) ELSE dflt

\* the object the coupons import builds from one row
couponFromRow(header, r, now, fresh) ==
    [id           |-> Or(cell(header, r, CouponHeader[1]), Str(fresh)),
     title        |-> Or(cell(header, r, CouponHeader[2]), Str(E)),
     code         |-> Str(ToUpperCase(ToStr(Or(cell(header, r, CouponHeader[3]), Str(E))))),
     discountType |-> Or(cell(header, r, CouponHeader[4]), Str(Percent)),
     value        |-> numberCell(header, r, CouponHeader[5], Null),
     start        |-> Or(cell(header, r, CouponHeader[6]), Str(E)),
     end          |-> Or(cell(header, r, CouponHeader[7]), Str(E)),
     maxUses      |-> numberCell(header, r, CouponHeader[8], Num(0)),
     used         |-> numberCell(header, r, CouponHeader[9], Num(0)),
     minPurchase  |-> numberCell(header, r, CouponHeader[10], Num(0)),
     published    |-> Bool(ToLowerCase(ToStr(Or(cell(header, r, CouponHeader[11]), Str(E))))
                           = << "t", "r", "u", "e" >>),
     description  |-> Or(cell(header, r, CouponHeader[12]), Str(E)),
     createdAt    |-> Or(cell(header, r, CouponHeader[13]), Str(ISO(now))),
     updatedAt    |-> Str(ISO(now))]

\* rows.forEach(...) of the coupons import
RECURSIVE importCouponRows(_, _, _, _, _)
importCouponRows(header, rs, arr, ctr, now) ==
    IF rs = << >> THEN [arr |-> arr, ctr |-> ctr]
    ELSE LET r    == Head(rs)
             need == rowNeedsUid(header, r)
             obj  == couponFromRow(header, r, now, Uid(ctr + 1))
             ctr2 == IF need THEN ctr + 1 ELSE ctr
         IN  importCouponRows(header, Tail(rs),
                              IF Truthy(obj.title) /\ Truthy(obj.code)
                              THEN upsertBack(arr, obj) ELSE arr,
                              ctr2, now)

\* the coupons import of a text: header = rows.shift()||[], then every row
importCoupons(text, arr, ctr, now) ==
    LET rs == parseCsv(text) IN
    IF rs = << >> THEN [arr |-> arr, ctr |-> ctr]
    ELSE importCouponRows(Head(rs), Tail(rs), arr, ctr, now)

(***************************************************************************)
(* The handlers of the coupons widget.                                     *)
(***************************************************************************)
CouponInput(title, code, type, value, start, end, max, pub, desc) ==
    [title |-> title, code |-> code, discountType |-> type, value |-> value,
     start |-> start, end |-> end, maxUses |-> max, minPurchase |-> E,
     published |-> pub, description |-> desc]

ValidCouponInputs ==
    { CouponInput(<< " ", "T", "i" >>, << "a", "b", " " >>, Percent, << "5" >>,
                  DateStr(0), DateStr(0), << "1" >>, TRUE, E),
      CouponInput(<< "x", ",", "\"" >>, << "c", "2" >>, Amount, << "2", "0" >>,
                  E, DateStr(1), E, FALSE, << "d", "\n", "e" >>),
      CouponInput(<< "T", "3" >>, << "Z" >>, E, << "1" >>,
                  DateStr(2), E, << "0" >>, TRUE, E) }

InvalidCouponInputs ==
    { CouponInput(<< " " >>, << "Z" >>, Percent, << "5" >>, E, E, E, TRUE, E),
      CouponInput(<< "T" >>, << " " >>, Percent, << "5" >>, E, E, E, TRUE, E),
      CouponInput(<< "T" >>, << "Z" >>, Percent, E, E, E, E, TRUE, E),
      CouponInput(<< "T" >>, << "Z" >>, Percent, << "a", "b" >>, E, E, E, TRUE, E),
      CouponInput(<< "T" >>, << "Z" >>, Percent, << "0" >>, E, E, E, TRUE, E),
      CouponInput(<< "T" >>, << "Z" >>, Percent, << "-", "5" >>, E, E, E, TRUE, E),
      CouponInput(<< "T" >>, << "Z" >>, Percent, << "5" >>, DateStr(1), DateStr(0),
                  E, TRUE, E) }

CouponInputs == ValidCouponInputs \cup InvalidCouponInputs

\* the form after the user typed inp into it (the hidden id is not typed)
typeCoupon(form, inp) ==
    [id |-> form.id, title |-> inp.title, code |-> inp.code,
     discountType |-> inp.discountType, value |-> inp.value,
     start |-> inp.start, end |-> inp.end, maxUses |-> inp.maxUses,
     minPurchase |-> inp.minPurchase, published |-> inp.published,
     description |-> inp.description]

\* form.reset() of the coupon form: every visible field blank
couponFormReset(form) ==
    [id |-> form.id, title |-> E, code |-> E, discountType |-> E, value |-> E,
     start |-> E, end |-> E, maxUses |-> E, minPurchase |-> E,
     published |-> FALSE, description |-> E]

\* a coupon a previous session left in storage
StoredCoupon ==
    [id |-> Str(<< "p", "1" >>), title |-> Str(<< "s", "a", "y", " ", "\"", "h", "i", "\"" >>),
     code |-> Str(<< "P", "1" >>), discountType |-> Str(Amount), value |-> Num(50),
     start |-> Str(E), end |-> Str(DateStr(0)), maxUses |-> Num(2), used |-> Num(2),
     minPurchase |-> Num(0), published |-> Bool(TRUE), description |-> Str(E),
     createdAt |-> Str(ISO(0)), updatedAt |-> Str(ISO(0))]

\* a stored coupon whose id is a number
NumIdCoupon == [StoredCoupon EXCEPT !.id = Num(7), !.title = Str(<< "N", "u" >>),
                                    !.code = Str(<< "N", "7" >>)]

CouponsStored ==
    { LsAbsent, LsEmpty, LsGarbage, LsJson(JsonObject), LsJson(JsonNull),
      LsJson(JsonArr(<< StoredCoupon, NumIdCoupon >>)) }

CouponFile1 ==
    Join(<< CsvLine(CouponHeader),
            CsvLine(<< Quoted(<< "n", "1" >>), Quoted(<< "N", "e" >>), Quoted(<< "n", "e" >>),
                       Quoted(Percent), << "7" >>, Quoted(E), Quoted(E), << "0" >>, << "0" >>,
                       << "0" >>, << "t", "r", "u", "e" >>, Quoted(E), Quoted(ISO(0)),
                       Quoted(ISO(0)) >>),
            CsvLine(<< Quoted(<< "n", "2" >>), Quoted(<< "N", "o" >>), Quoted(E),
                       Quoted(Percent), << "7" >>, Quoted(E), Quoted(E), << "0" >>, << "0" >>,
                       << "0" >>, << "t", "r", "u", "e" >>, Quoted(E), Quoted(ISO(0)),
                       Quoted(ISO(0)) >>) >>,
         CRLF)

\* a file without an id column
CouponFile2 ==
    Join(<< CsvLine(<< CouponHeader[2], CouponHeader[3], CouponHeader[5] >>),
            CsvLine(<< << "M", "e" >>, << "m" >>, << "-", "3" >> >>) >>,
         << "\n" >>)

CouponFiles == { File("coupons.csv", CouponFile1), File("coupons.csv", CouponFile2) }

othersIdleCoupons == UNCHANGED << page, cardsVars, ksVars, serverVars, fnVars, auxVars >>

\* btnAdd click of the coupons widget
BtnAddCoupon ==
    /\ page = "coupons"
    /\ Elapse
    /\ qForm' = [couponFormReset(qForm) EXCEPT !.id = E, !.discountType = Percent,
                                               !.value = E, !.start = todayStr(clock)]
    /\ qModal' = TRUE
    /\ last' = Ev("add", Str(E), FALSE, "none", FALSE)
    /\ UNCHANGED << ls, uidCtr, download, coupons, qSort, qFilter, qTbody >>
    /\ othersIdleCoupons

\* if (pos>=0) coupons[pos]=obj; else coupons.unshift(obj)
upsertCouponFront(arr, obj) ==
    LET pos == FindIndex(arr, obj.id) IN
    IF pos > 0 THEN [arr EXCEPT ![pos] = obj] ELSE << obj >> \o arr

\* the user fills the form in, then btnSave click
BtnSaveCoupon(inp) ==
    /\ page = "coupons"
    /\ Elapse
    /\ LET form == typeCoupon(qForm, inp) IN
       /\ qForm' = form
       /\ IF fromFormCouponRejects(form)
          THEN /\ last' = Ev("save", Str(form.id), TRUE, "none", FALSE)
               /\ UNCHANGED << ls, uidCtr, coupons, qTbody, qModal >>
          ELSE LET obj == fromFormCoupon(form, coupons, clock, Uid(uidCtr + 1))
                   arr == upsertCouponFront(coupons, obj)
               IN  /\ Len(arr) <= MaxCards
                   /\ form.id = E => uidCtr < 3 + MaxUid
                   /\ coupons' = arr
                   /\ uidCtr' = IF form.id = E THEN uidCtr + 1 ELSE uidCtr
                   /\ ls' = saveCoupons(ls, arr)
                   /\ qTbody' = renderCoupons(arr, qFilter, qSort, clock)
                   /\ qModal' = FALSE
                   /\ last' = Ev("save", obj.id, FALSE, "none", TRUE)
    /\ UNCHANGED << download, qSort, qFilter >>
    /\ othersIdleCoupons

\* editModal click on [data-close]: closeModal(editModal) keeps the form
ModalCloseCoupon ==
    /\ page = "coupons"
    /\ Elapse
    /\ qModal
    /\ qModal' = FALSE
    /\ last' = Ev("close", Str(E), FALSE, "none", FALSE)
    /\ UNCHANGED << ls, uidCtr, download, coupons, qSort, qFilter, qForm, qTbody >>
    /\ othersIdleCoupons

\* tbody click on [data-edit]
TbodyEditCoupon(id) ==
    /\ page = "coupons"
    /\ Elapse
    /\ LET i == FindIndex(coupons, id) IN
       IF i > 0
       THEN qForm' = toFormCoupon(coupons[i]) /\ qModal' = TRUE
       ELSE UNCHANGED << qForm, qModal >>
    /\ last' = Ev("edit", id, FALSE, "none", FALSE)
    /\ UNCHANGED << ls, uidCtr, download, coupons, qSort, qFilter, qTbody >>
    /\ othersIdleCoupons

\* coupons = coupons.filter(x=>x.id!==id)
removeCoupon(arr, id) == FilterOutId(arr, id)

\* tbody click on [data-del]; answer is what the user tells confirm()
TbodyDelCoupon(id, answer) ==
    /\ page = "coupons"
    /\ Elapse
    /\ LET found == FindIndex(coupons, id) > 0 IN
       IF found /\ answer
       THEN LET arr == removeCoupon(coupons, id) IN
            /\ coupons' = arr
            /\ ls' = saveCoupons(ls, arr)
            /\ qTbody' = renderCoupons(arr, qFilter, qSort, clock)
            /\ last' = Ev("del", id, FALSE, "yes", TRUE)
       ELSE /\ last' = Ev("del", id, FALSE, IF found THEN "no" ELSE "none", FALSE)
            /\ UNCHANGED << ls, coupons, qTbody >>
    /\ UNCHANGED << uidCtr, download, qSort, qFilter, qForm, qModal >>
    /\ othersIdleCoupons

\* btnExport click of the coupons widget
BtnExportCoupons ==
    /\ page = "coupons"
    /\ Elapse
    /\ download' = File("coupons.csv", exportCoupons(coupons))
    /\ last' = Ev("export", Str(E), FALSE, "none", FALSE)
    /\ UNCHANGED << ls, uidCtr, couponsVars >>
    /\ othersIdleCoupons

\* importInput change of the coupons widget with a chosen file
ImportCsvCoupons(file) ==
    /\ page = "coupons"
    /\ Elapse
    /\ file # NoFile
    /\ LET r == importCoupons(file.text, coupons, uidCtr, clock) IN
       /\ Len(r.arr) <= MaxCards
       /\ r.ctr <= 3 + MaxUid
       /\ coupons' = r.arr
       /\ uidCtr' = r.ctr
       /\ ls' = saveCoupons(ls, r.arr)
       /\ qTbody' = renderCoupons(r.arr, qFilter, qSort, clock)
    /\ last' = Ev("import", Str(E), TRUE, "none", TRUE)
    /\ UNCHANGED << download, qSort, qFilter, qForm, qModal >>
    /\ othersIdleCoupons

NextCoupons ==
    \/ BtnAddCoupon
    \/ \E inp \in CouponInputs : BtnSaveCoupon(inp)
    \/ ModalCloseCoupon
    \/ \E r \in {qTbody[i] : i \in 1..Len(qTbody)} : TbodyEditCoupon(rowAttr(r))
    \/ \E id \in {rowAttr(qTbody[i]) : i \in 1..Len(qTbody)} :
           \E answer \in BOOLEAN : TbodyDelCoupon(id, answer)
    \/ BtnExportCoupons
    \/ \E file \in CouponFiles \cup {download} : ImportCsvCoupons(file)

\* the columns the coupons sort comparator knows
CouponSortColumns == {"title", "code", "discountType", "value", "status", "usage", "period"}

\* th[data-sort] click of the coupons widget
SortClickCoupon(by) ==
    /\ page = "coupons"
    /\ Elapse
    /\ qSort' = sortClick(qSort, by)
    /\ qTbody' = renderCoupons(coupons, qFilter, qSort', clock)
    /\ last' = Ev("sort", Str(<< by >>), FALSE, "none", FALSE)
    /\ UNCHANGED << ls, uidCtr, download, coupons, qFilter, qForm, qModal >>
    /\ othersIdleCoupons

\* searchInput input and statusFilter change of the coupons widget
FilterChangeCoupon(field, typed) ==
    /\ page = "coupons"
    /\ Elapse
    /\ qFilter' = [qFilter EXCEPT ![field] =
                       IF field = "q" THEN ToLowerCase(Trim(typed)) ELSE typed]
    /\ qFilter' # qFilter
    /\ qTbody' = renderCoupons(coupons, qFilter', qSort, clock)
    /\ last' = Ev(IF field = "q" THEN "search" ELSE "filter", Str(typed), FALSE, "none", FALSE)
    /\ UNCHANGED << ls, uidCtr, download, coupons, qSort, qForm, qModal >>
    /\ othersIdleCoupons

CouponFilterChoices ==
    { << "q", E >>, << "q", << " ", "K", " " >> >>, << "q", << "p", "1" >> >>,
      << "status", E >>, << "status", StActive >>, << "status", StExhausted >>,
      << "status", StDisabled >> }

\* the table view of the coupons widget
NextCouponsView ==
    \/ \E by \in CouponSortColumns : SortClickCoupon(by)
    \/ \E c \in CouponFilterChoices : FilterChangeCoupon(c[1], c[2])
    \/ \E id \in {rowAttr(qTbody[i]) : i \in 1..Len(qTbody)} :
           \E answer \in BOOLEAN : TbodyDelCoupon(id, answer)

(***************************************************************************)
(* The page scripts on the key ks_cards.                                   *)
(*                                                                         *)
(* public/cabinet-cards.js, lines 1-30, keeps cards of the shape           *)
(* {id, name, category, district, status, createdAt}; public/cabinet.js    *)
(* keeps rows of the shape {name, cat, dist, st}.  Both use "ks_cards".    *)
(* A collection in memory is a JSON value: JsonArr(items) when an array.   *)
(***************************************************************************)
KS_CARDS == "ks_cards"

IsArr(v) == v.t = "arr"

\* S.get(k,d): JSON.parse(localStorage.getItem(k)) ?? d, and d when that throws
SGet(store, key, d) ==
    LET raw == GetItem(store, key) IN
    IF raw.k = "absent" THEN d               \* JSON.parse(null) is null
    ELSE IF ParseThrows(raw) THEN d
    ELSE IF raw.v.t = "null" THEN d
    ELSE raw.v

\* a faulty variant of the conversion: the last record is left out
StringifyButLast(v) ==
    IF IsArr(v) /\ v.items # << >> THEN Stringify(SubSeq(v.items, 1, Len(v.items) - 1))
    ELSE LsJson(v)

\* JSON.stringify of a collection in memory
StringifyValue(v) == IF IsArr(v) THEN Stringify(v.items) ELSE LsJson(v)

\* S.set(k,v)
SSet(store, key, v) == SetItem(store, key, StringifyValue(v))

DefCard(id, name, cat, dist, st, created) ==
    [id |-> Str(id), name |-> Str(name), category |-> Str(cat),
     district |-> Str(dist), status |-> Str(st), createdAt |-> Num(created)]

\* DEF_CARDS, evaluated when the script loads at the instant now
DEF_CARDS(now) ==
    << DefCard(<< "c", "1" >>, << "V", "a" >>, CATEGORIES[1], DISTRICTS[1], StPublished, now - 3),
       DefCard(<< "c", "2" >>, << "T", "r" >>, CATEGORIES[2], DISTRICTS[2], StModeration, now - 2),
       DefCard(<< "c", "3" >>, << "A", "t" >>, CATEGORIES[3], DISTRICTS[3], StDraft, now - 1) >>

\* list() with the page's filters at their defaults: every card is shown,
\* newest first (sort "created_desc": (a,b)=>b.createdAt-a.createdAt)
list(v) ==
    LET keys == [i \in 1..Len(v.items) |-> NumberOf(Get(v.items[i], "createdAt"))]
    IN  ArraySort(v.items, keys, -1)

\* filters(): what list() reads from the search box and the four selects
filters(dom) ==
    [term |-> ToLowerCase(Trim(dom.search)), cat |-> dom.category,
     dist |-> dom.district, st |-> dom.status,
     sort |-> IF dom.sort = "" THEN "created_desc" ELSE dom.sort]

\* the filter callback of list()
listShown(r, f) ==
    /\ (f.term = E \/ Includes(ToLowerCase(Get(r, "name").s), f.term))
    /\ (f.cat = E \/ Get(r, "category") = Str(f.cat))
    /\ (f.dist = E \/ Get(r, "district") = Str(f.dist))
    /\ (f.st = E \/ Get(r, "status") = Str(f.st))

\* a.localeCompare(b,"ru") orders strings letter by letter without regard to
\* case and, between strings that differ in case only, small before capital:
\* LocaleKey(a) < LocaleKey(b) in code units exactly when a sorts before b
LocaleKey(s) ==
    ToLowerCase(s) \o << "\n" >> \o
    [i \in 1..Len(s) |-> IF LowerCh(s[i]) # s[i] THEN "1" ELSE "0"]

\* the keys and the direction of the switch(f.sort) of list(); direction 0
\* stands for a sort value without a case: the rows are not sorted
listSortKey(r, srt) ==
    CASE srt \in {"created_asc", "created_desc"} -> NumberOf(Get(r, "createdAt"))
      [] srt \in {"name_asc", "name_desc"}       -> Str(LocaleKey(Get(r, "name").s))
      [] srt = "status"                          -> Str(LocaleKey(Get(r, "status").s))
      [] OTHER                                   -> Str(E)

listSortDir(srt) ==
    CASE srt \in {"created_asc", "name_asc", "status"} -> 1
      [] srt \in {"created_desc", "name_desc"}         -> 0 - 1
      [] OTHER                                         -> 0

\* list() with the filters the page shows: the rows written into #cards-list
listFiltered(v, dom) ==
    LET f     == filters(dom)
        shown == SelectSeq(v.items, LAMBDA r : listShown(r, f))
        keys  == [i \in 1..Len(shown) |-> listSortKey(shown[i], f.sort)]
    IN  IF listSortDir(f.sort) = 0 THEN shown
        ELSE ArraySort(shown, keys, listSortDir(f.sort))

\* what the user leaves in the form of cabinet-cards.js before submitting
KInputs ==
    { [name |-> << " ", "N", "n" >>, category |-> CATEGORIES[2], district |-> E, status |-> StModeration],
      [name |-> << " " >>, category |-> CATEGORIES[1], district |-> DISTRICTS[1], status |-> StDraft] }

\* saveForm(): the data object
formData(inp) ==
    [name     |-> Str(Trim(inp.name)),
     category |-> Str(IF inp.category # E THEN inp.category ELSE CATEGORIES[1]),
     district |-> Str(IF inp.district # E THEN inp.district ELSE DISTRICTS[1]),
     status   |-> Str(IF inp.status # E THEN inp.status ELSE StPublished)]

\* {...a, ...b}
Spread(a, b) == [k \in (DOMAIN a) \cup (DOMAIN b) |-> IF k \in DOMAIN b THEN b[k] ELSE a[k]]

\* saveForm(): the collection after the edit or the insertion
saveFormCards(items, editId, data, now, fresh) ==
    IF editId # E
    THEN LET i == FindIndex(items, Str(editId)) IN
         IF i > 0 THEN [items EXCEPT ![i] = Spread(items[i], data)] ELSE items
    ELSE << Spread([id |-> Str(fresh), createdAt |-> Num(now)], data) >> \o items

\* the link a drawn row offers: /published/i.test(c.status) ? unpub : pub
rowAct(r) ==
    IF Includes(ToLowerCase(ToStr(Get(r, "status"))), ToLowerCase(StPublished))
    THEN "unpub" ELSE "pub"

\* a faulty variant of setPub: every card gets the status
setPubAll(items, id, val) ==
    [i \in 1..Len(items) |->
        With(items[i], "status", Str(IF val THEN StPublished ELSE StDraft))]

\* setPub(id,val): c.status=val?"published":"draft"
setPub(items, id, val) ==
    LET i == FindIndex(items, id) IN
    [items EXCEPT ![i] = With(items[i], "status", Str(IF val THEN StPublished ELSE StDraft))]

\* a faulty variant of the filter: != instead of !==
delCardLoose(items, id) == SelectSeq(items, LAMBDA x : ToStr(Get(x, "id")) # id.s)

\* delCard(id): cards=cards.filter(x=>x.id!==id)
delCard(items, id) == FilterOutId(items, id)

\* files a user may pick for the JSON import besides the last export
KFiles ==
    { File("cards.json", LsGarbage), File("cards.json", LsJson(JsonObject)),
      File("cards.json", LsJson(JsonArr(<< DefCard(<< "j", "1" >>, << "J", "s" >>,
                                    CATEGORIES[1], DISTRICTS[1], StModeration, 0) >>))) }

\* demoCards of cabinet.js
demoCards ==
    << [name |-> Str(<< "A", "s" >>), cat |-> Str(CATEGORIES[1]), dist |-> Str(<< "c", "n" >>),
        st |-> Str(<< "-", "1", "5" >>)],
       [name |-> Str(<< "M", "a" >>), cat |-> Str(CATEGORIES[2]), dist |-> Str(<< "s", "v" >>),
        st |-> Str(<< "-", "1", "0" >>)],
       [name |-> Str(<< "A", "t" >>), cat |-> Str(CATEGORIES[3]), dist |-> Str(<< "z", "p" >>),
        st |-> Str(<< "-", "2", "0" >>)] >>

\* load(key, fallback) of cabinet.js
loadRows(store, key, fallback) ==
    LET raw == GetItem(store, key) IN
    IF raw.k = "absent" THEN fallback        \* JSON.parse("null") is no array
    ELSE IF ParseThrows(raw) THEN fallback
    ELSE IF ParsesToArray(raw) THEN raw.v.items
    ELSE fallback

\* save(key, data) of cabinet.js
saveRows(store, key, data) == SetItem(store, key, Stringify(data))

\* what prompt() returns: null when cancelled
PromptAnswers ==
    { [name |-> Null, cat |-> Null, dist |-> Null, st |-> Null],
      [name |-> Str(E), cat |-> Null, dist |-> Null, st |-> Null],
      [name |-> Str(<< "N", "w" >>), cat |-> Str(CATEGORIES[1]), dist |-> Null, st |-> Str(E)] }

\* promptCard(base) returns null when the name is cancelled or empty
promptCardNull(ans) == ~Truthy(ans.name)

\* rows.splice(i,1), i counted from 0
splice(arr, i) ==
    IF i + 1 \in 1..Len(arr)
    THEN SubSeq(arr, 1, i) \o SubSeq(arr, i + 2, Len(arr))
    ELSE arr

\* what the key can hold when a page loads
KsStored ==
    { LsAbsent, LsEmpty, LsGarbage, LsJson(JsonObject),
      LsJson(JsonArr(<< DefCard(<< "p", "1" >>, << "P", "a" >>, CATEGORIES[1],
                                DISTRICTS[1], StDraft, 0),
                        [DefCard(<< "p", "2" >>, << "N", "u" >>, CATEGORIES[2],
                                 DISTRICTS[1], StDraft, 0) EXCEPT !.id = Num(7)] >>)) }

KsPages == {"cabinet-cards.js", "cabinet.js#cards", "cabinet.js#districts",
            "cabinet.js#overview"}

\* the script file of a page
ScriptOf(p) == IF p = "cabinet-cards.js" THEN p ELSE "cabinet.js"

Use(script, key, mode) == << script, key, mode >>

\* the state of the browser right after the page p ran its script
Loaded(p, store, now) ==
    /\ page' = p
    /\ kCards' = IF p = "cabinet-cards.js"
                 THEN SGet(store, KS_CARDS, JsonArr(DEF_CARDS(now))) ELSE JsonArr(<< >>)
    /\ kForm' = [open |-> FALSE, editId |-> E]
    /\ kList' = IF p = "cabinet-cards.js" /\ IsArr(kCards') THEN list(kCards') ELSE << >>
    /\ rows' = IF p = "cabinet.js#cards" THEN loadRows(store, KS_CARDS, demoCards) ELSE << >>
    /\ rowsTbody' = rows'
    /\ dRows' = IF p = "cabinet.js#districts" THEN loadRows(store, KS_CARDS, << >>)
                ELSE IF p = "cabinet.js#overview" THEN loadRows(store, KS_CARDS, demoCards)
                ELSE << >>
    /\ keyUse' = keyUse \cup {Use(ScriptOf(p), KS_CARDS, "read")}

ksIdle == UNCHANGED << download, cardsVars, couponsVars, serverVars, fnVars, auxVars >>

\* the user opens another page of the cabinet
Navigate(p) ==
    /\ page \in KsPages
    /\ p # page
    /\ Elapse
    /\ Loaded(p, ls, clock)
    /\ last' = Ev("load", Str(E), FALSE, "none", FALSE)
    /\ UNCHANGED << ls, uidCtr >>
    /\ ksIdle

\* click on #btn-create, or on a row's edit link
KOpenForm(id) ==
    /\ page = "cabinet-cards.js"
    /\ Elapse
    /\ IsArr(kCards)
    /\ kForm' = [open |-> TRUE, editId |-> id.s]
    /\ last' = Ev("edit", id, FALSE, "none", FALSE)
    /\ UNCHANGED << page, ls, uidCtr, kCards, kList, rows, rowsTbody, dRows, keyUse >>
    /\ ksIdle

\* submit of #card-form: saveForm(e)
KSaveForm(inp) ==
    /\ page = "cabinet-cards.js"
    /\ Elapse
    /\ IsArr(kCards)
    /\ IF Trim(inp.name) = E
       THEN /\ last' = Ev("save", Str(kForm.editId), TRUE, "none", FALSE)
            /\ UNCHANGED << ls, uidCtr, kCards, kList, kForm, keyUse >>
       ELSE LET items == saveFormCards(kCards.items, kForm.editId, formData(inp),
                                       clock, Uid(uidCtr + 1))
            IN  /\ Len(items) <= MaxCards
                /\ kForm.editId = E => uidCtr < 3 + MaxUid
                /\ kCards' = JsonArr(items)
                /\ uidCtr' = IF kForm.editId = E THEN uidCtr + 1 ELSE uidCtr
                /\ ls' = SSet(ls, KS_CARDS, kCards')
                /\ kList' = list(kCards')
                /\ kForm' = [open |-> FALSE, editId |-> E]
                /\ keyUse' = keyUse \cup {Use("cabinet-cards.js", KS_CARDS, "write")}
                /\ last' = Ev("save", Str(kForm.editId), FALSE, "none", TRUE)
    /\ UNCHANGED << page, rows, rowsTbody, dRows >>
    /\ ksIdle

\* click on a row's publish / unpublish link: setPub(id,val)
KSetPub(id, val) ==
    /\ page = "cabinet-cards.js"
    /\ Elapse
    /\ IsArr(kCards)
    /\ IF FindIndex(kCards.items, id) = 0
       THEN /\ last' = Ev("pub", id, FALSE, "none", FALSE)
            /\ UNCHANGED << ls, kCards, kList, keyUse >>
       ELSE /\ kCards' = JsonArr(setPub(kCards.items, id, val))
            /\ ls' = SSet(ls, KS_CARDS, kCards')
            /\ kList' = list(kCards')
            /\ keyUse' = keyUse \cup {Use("cabinet-cards.js", KS_CARDS, "write")}
            /\ last' = Ev("pub", id, FALSE, "none", TRUE)
    /\ UNCHANGED << page, uidCtr, kForm, rows, rowsTbody, dRows >>
    /\ ksIdle

\* click on a row's delete link: delCard(id)
KDelCard(id, answer) ==
    /\ page = "cabinet-cards.js"
    /\ Elapse
    /\ IsArr(kCards)
    /\ IF ~answer
       THEN /\ last' = Ev("del", id, FALSE, "no", FALSE)
            /\ UNCHANGED << ls, kCards, kList, keyUse >>
       ELSE /\ kCards' = JsonArr(delCard(kCards.items, id))
            /\ ls' = SSet(ls, KS_CARDS, kCards')
            /\ kList' = list(kCards')
            /\ keyUse' = keyUse \cup {Use("cabinet-cards.js", KS_CARDS, "write")}
            /\ last' = Ev("del", id, FALSE, "yes", TRUE)
    /\ UNCHANGED << page, uidCtr, kForm, rows, rowsTbody, dRows >>
    /\ ksIdle

\* click on #btn-export: cards.json
KExport ==
    /\ page = "cabinet-cards.js"
    /\ Elapse
    /\ download' = File("cards.json", StringifyValue(kCards))
    /\ last' = Ev("export", Str(E), FALSE, "none", FALSE)
    /\ UNCHANGED << page, ls, uidCtr, cardsVars, couponsVars, ksVars, serverVars, fnVars, auxVars >>

\* change of #imp with a chosen file: the JSON import
KImport(file) ==
    /\ page = "cabinet-cards.js"
    /\ Elapse
    /\ file # NoFile
    /\ IF ~ParseThrows(file.text) /\ ParsesToArray(file.text)
       THEN /\ Len(file.text.v.items) <= MaxCards
            /\ kCards' = file.text.v
            /\ ls' = SSet(ls, KS_CARDS, kCards')
            /\ kList' = list(kCards')
            /\ keyUse' = keyUse \cup {Use("cabinet-cards.js", KS_CARDS, "write")}
            /\ last' = Ev("import", Str(E), FALSE, "none", TRUE)
       ELSE /\ last' = Ev("import", Str(E), TRUE, "none", FALSE)
            /\ UNCHANGED << ls, kCards, kList, keyUse >>
    /\ UNCHANGED << page, uidCtr, kForm, rows, rowsTbody, dRows >>
    /\ ksIdle

\* cabinet.js, page-cards: click on #card-add
CardAdd(ans) ==
    /\ page = "cabinet.js#cards"
    /\ Elapse
    /\ IF promptCardNull(ans)
       THEN /\ last' = Ev("add", Str(E), FALSE, "none", FALSE)
            /\ UNCHANGED << ls, rows, rowsTbody, keyUse >>
       ELSE /\ Len(rows) < MaxCards
            /\ rows' = Append(rows, ans)
            /\ ls' = saveRows(ls, KS_CARDS, rows')
            /\ rowsTbody' = rows'
            /\ keyUse' = keyUse \cup {Use("cabinet.js", KS_CARDS, "write")}
            /\ last' = Ev("add", Str(E), FALSE, "none", TRUE)
    /\ UNCHANGED << page, uidCtr, kCards, kForm, kList, dRows >>
    /\ ksIdle

\* cabinet.js, page-cards: click on the data-del button of row i (from 0)
RowDel(i) ==
    /\ page = "cabinet.js#cards"
    /\ Elapse
    /\ rows' = splice(rows, i)
    /\ ls' = saveRows(ls, KS_CARDS, rows')
    /\ rowsTbody' = rows'
    /\ keyUse' = keyUse \cup {Use("cabinet.js", KS_CARDS, "write")}
    /\ last' = Ev("del", Str(NumToStr(i)), FALSE, "none", TRUE)
    /\ UNCHANGED << page, uidCtr, kCards, kForm, kList, dRows >>
    /\ ksIdle

\* cabinet.js, page-cards: click on the data-ed button of row i (from 0)
RowEdit(i, ans) ==
    /\ page = "cabinet.js#cards"
    /\ Elapse
    /\ IF promptCardNull(ans)
       THEN /\ last' = Ev("edit", Str(NumToStr(i)), FALSE, "none", FALSE)
            /\ UNCHANGED << ls, rows, rowsTbody, keyUse >>
       ELSE /\ rows' = [rows EXCEPT ![i + 1] = ans]
            /\ ls' = saveRows(ls, KS_CARDS, rows')
            /\ rowsTbody' = rows'
            /\ keyUse' = keyUse \cup {Use("cabinet.js", KS_CARDS, "write")}
            /\ last' = Ev("edit", Str(NumToStr(i)), FALSE, "none", TRUE)
    /\ UNCHANGED << page, uidCtr, kCards, kForm, kList, dRows >>
    /\ ksIdle

NextKs ==
    \/ \E p \in KsPages : Navigate(p)
    \/ \E id \in {Str(E)} \cup {rowAttr(kList[i]) : i \in 1..Len(kList)} : KOpenForm(id)
    \/ \E inp \in KInputs : KSaveForm(inp)
    \/ \E r \in {kList[i] : i \in 1..Len(kList)} : KSetPub(rowAttr(r), rowAct(r) = "pub")
    \/ \E id \in {rowAttr(kList[i]) : i \in 1..Len(kList)} :
           \E answer \in BOOLEAN : KDelCard(id, answer)
    \/ KExport
    \/ \E file \in KFiles \cup {download} : KImport(file)
    \/ \E ans \in PromptAnswers : CardAdd(ans)
    \/ \E i \in 0..(Len(rowsTbody) - 1) : RowDel(i)
    \/ \E i \in 0..(Len(rowsTbody) - 1) : \E ans \in PromptAnswers : RowEdit(i, ans)

(***************************************************************************)
(* The Express server (unnamed/part_000, lines 33-74).                      *)
(*                                                                         *)
(* A request path is its segments, the extension of the last segment and   *)
(* whether it ends with a slash; a file of public/ is its name and its     *)
(* extension.  The middleware stack is the sequence of app.use / app.get   *)
(* calls in the order the file makes them.                                 *)
(***************************************************************************)
Path(segs, ext, slash) == [segs |-> segs, ext |-> ext, slash |-> slash]

PublicFile(name, ext) == [name |-> name, ext |-> ext]

\* the eleven app.get calls before the catch-all: route segments and file name
Routes ==
    << [segs |-> << >>,                          file |-> "index"],
       [segs |-> << "cabinet" >>,                 file |-> "cabinet"],
       [segs |-> << "cabinet", "cards" >>,        file |-> "cabinet-cards"],
       [segs |-> << "cabinet", "qr" >>,           file |-> "cabinet-qr"],
       [segs |-> << "cabinet", "districts" >>,    file |-> "cabinet-districts"],
       [segs |-> << "cabinet", "reviews" >>,      file |-> "cabinet-reviews"],
       [segs |-> << "cabinet", "analytics" >>,    file |-> "cabinet-analytics"],
       [segs |-> << "cabinet", "integrations" >>, file |-> "cabinet-integrations"],
       [segs |-> << "cabinet", "team" >>,         file |-> "cabinet-team"],
       [segs |-> << "cabinet", "settings" >>,     file |-> "cabinet-settings"],
       [segs |-> << "cabinet", "support" >>,      file |-> "cabinet-support"] >>

\* the app.get calls made after the catch-all and app.listen
LateRoutes ==
    << [segs |-> << "cabinet", "cards" >>,     file |-> "cabinet-cards"],
       [segs |-> << "cabinet", "qr" >>,        file |-> "cabinet-qr"],
       [segs |-> << "cabinet", "districts" >>, file |-> ""] >>

\* public/: the page files the routes name, and the scripts
PublicDir ==
    {PublicFile(Routes[i].file, "html") : i \in 1..Len(Routes)}
    \cup {PublicFile("cabinet-cards", "js"), PublicFile("cabinet", "js"),
          PublicFile("script", "js"), PublicFile("cabinet.js", "bak")}

StaticLayer == [kind |-> "static", segs |-> << >>, file |-> ""]
CatchAll    == [kind |-> "use", segs |-> << >>, file |-> ""]
GetLayer(r) == [kind |-> "get", segs |-> r.segs, file |-> r.file]

\* a faulty order of registration: the catch-all before the routes
StackCatchAllFirst ==
    << StaticLayer, CatchAll >> \o [i \in 1..Len(Routes) |-> GetLayer(Routes[i])]
    \o [i \in 1..Len(LateRoutes) |-> GetLayer(LateRoutes[i])]

\* the middleware stack, in registration order
Stack ==
    << StaticLayer >> \o [i \in 1..Len(Routes) |-> GetLayer(Routes[i])]
    \o << CatchAll >> \o [i \in 1..Len(LateRoutes) |-> GetLayer(LateRoutes[i])]

NoReq == [method |-> "", path |-> Path(<< >>, "", FALSE)]
NoRes == [status |-> 0, type |-> "", body |-> [k |-> "none"]]

FileBody(f) == [k |-> "file", f |-> f]
TextBody(s) == [k |-> "text", s |-> s]

\* Content-Type by extension (setHeaders of the static layer, res.sendFile)
TypeOfExt(ext) ==
    IF ext = "html" THEN "html" ELSE IF ext = "js" THEN "javascript"
    ELSE IF ext = "css" THEN "css" ELSE "octet-stream"

SendFile(f) == [status |-> 200, type |-> TypeOfExt(f.ext), body |-> FileBody(f)]

\* express.static with extensions ["html"]: the file a GET resolves to, if any
StaticFiles(path) ==
    IF path.segs = << >>
    THEN {PublicFile("index", "html")} \cap PublicDir          \* the directory index
    ELSE IF path.slash \/ Len(path.segs) > 1 THEN {}              \* public/ has no directories
    ELSE IF path.ext # "" THEN {PublicFile(path.segs[1], path.ext)} \cap PublicDir
    ELSE {PublicFile(path.segs[1], "html")} \cap PublicDir

\* a route path matches without regard to a trailing slash
RouteMatches(l, r) == r.method = "GET" /\ r.path.ext = "" /\ r.path.segs = l.segs

\* a faulty catch-all: it calls next() like a layer that does not match
HandlesUseNext(l, r) ==
    IF l.kind = "static" THEN r.method = "GET" /\ StaticFiles(r.path) # {}
    ELSE IF l.kind = "get" THEN RouteMatches(l, r) /\ l.file # ""
    ELSE FALSE

\* does the layer answer the request, or call next()
Handles(l, r) ==
    IF l.kind = "static" THEN r.method = "GET" /\ StaticFiles(r.path) # {}
    ELSE IF l.kind = "get"
    THEN RouteMatches(l, r) /\ l.file # ""        \* sendFile of a directory calls next()
    ELSE TRUE

\* the response of a layer that handles the request
Answer(l, r) ==
    IF l.kind = "static" THEN SendFile(CHOOSE f \in StaticFiles(r.path) : TRUE)
    ELSE IF l.kind = "get" THEN SendFile(PublicFile(l.file, "html"))
    ELSE [status |-> 404, type |-> "text", body |-> TextBody("Not Found")]

\* the default answer of Express when no layer is left
FinalHandler(r) == [status |-> 404, type |-> "html", body |-> TextBody("Cannot " \o r.method)]

Methods == {"GET", "POST"}

RequestPaths ==
    {Path(Routes[i].segs, "", FALSE) : i \in 1..Len(Routes)}
    \cup {Path(<< "cabinet" >>, "", TRUE), Path(<< "script" >>, "js", FALSE),
          Path(<< "index" >>, "", FALSE), Path(<< "nope" >>, "", FALSE),
          Path(<< "cabinet", "nope" >>, "", FALSE)}

Requests == [method : Methods, path : RequestPaths]

serverIdle == UNCHANGED << page, ls, clock, uidCtr, last, download, cardsVars, couponsVars,
                         ksVars, fnVars, auxVars >>

\* a request arrives; the exchange before it is kept in served
Receive(r) ==
    /\ page = "server"
    /\ layer = 0
    /\ req' = r
    /\ layer' = 1
    /\ res' = NoRes
    /\ served' = [req |-> req, res |-> res]
    /\ serverIdle

\* the current layer answers the request
Handle ==
    /\ page = "server"
    /\ layer \in 1..Len(Stack)
    /\ Handles(Stack[layer], req)
    /\ res' = Answer(Stack[layer], req)
    /\ layer' = 0
    /\ UNCHANGED << req, served >>
    /\ serverIdle

\* the current layer calls next()
Pass ==
    /\ page = "server"
    /\ layer \in 1..Len(Stack)
    /\ ~Handles(Stack[layer], req)
    /\ IF layer = Len(Stack)
       THEN res' = FinalHandler(req) /\ layer' = 0
       ELSE res' = res /\ layer' = layer + 1
    /\ UNCHANGED << req, served >>
    /\ serverIdle

NextServer ==
    \/ \E r \in Requests : Receive(r)
    \/ Handle
    \/ Pass

(***************************************************************************)
(* Initial states: the page has loaded and run its script once.            *)
(***************************************************************************)
EmptyStore == [k \in Keys |-> LsAbsent]

IdleForm == [fId |-> E]

idleCards   == cards = << >> /\ cSort = "none" /\ cFilters = "none"
               /\ cForm = IdleForm /\ cModal = FALSE /\ cTbody = << >>
idleCoupons == coupons = << >> /\ qSort = "none" /\ qFilter = "none"
               /\ qForm = IdleForm /\ qModal = FALSE /\ qTbody = << >>
idleKs      == kCards = JsonArr(<< >>) /\ kForm = [open |-> FALSE, editId |-> E]
               /\ kList = << >>
               /\ rows = << >> /\ rowsTbody = << >> /\ dRows = << >>
               /\ keyUse = {}
idleServer  == req = NoReq /\ layer = 0 /\ res = NoRes
               /\ served = [req |-> NoReq, res |-> NoRes]
idleFn      == arg = << >> /\ out = << >>
NoTab       == [tab |-> "none"]
NoMenu      == [menu |-> "none"]
idleAux     == other = NoTab /\ menu = NoMenu

\* the cards page loaded over what the key holds
CardsLoaded(stored) ==
    /\ page = "cards"
    /\ \E raw \in stored : ls = SetItem(EmptyStore, STORAGE_KEY, raw)
    /\ clock = 0
    /\ uidCtr = 3
    /\ last = Ev("load", Str(E), FALSE, "none", FALSE)
    /\ download = NoFile
    /\ cards = load(ls)
    /\ cSort = [by |-> "name", dir |-> "asc"]
    /\ cFilters = [q |-> E, category |-> E, district |-> E, status |-> E]
    /\ cForm = [fId |-> E, fName |-> E, fCategory |-> CATEGORIES[1],
                fDistrict |-> DISTRICTS[1], fDiscount |-> E, fDesc |-> E,
                fPublished |-> FALSE, fStatus |-> StDraft]
    /\ cModal = FALSE
    /\ cTbody = render(cards, cFilters, cSort)
    /\ idleCoupons /\ idleKs /\ idleServer /\ idleFn

InitCards == CardsLoaded(CardsStored) /\ idleAux

SpecCards == InitCards /\ [][NextCards]_vars

SpecCardsView == InitCards /\ [][NextCardsView]_vars

\* the cards widget opened with nothing usable under its key: the demo cards
InitCardsDemo == InitCards /\ ~ParsesToArray(GetItem(ls, STORAGE_KEY))

SpecCardsDemo == InitCardsDemo /\ [][NextCards]_vars

(***************************************************************************)
(* Two instances of the cards page on the same key.  Each instance loads   *)
(* once, when it is opened, and keeps its own cards, form and table; the   *)
(* handlers run in the instance whose tab is in front, the other instance  *)
(* is parked in other.                                                     *)
(***************************************************************************)
Instance(c, srt, flt, form, modal, tbody) ==
    [cards |-> c, cSort |-> srt, cFilters |-> flt, cForm |-> form,
     cModal |-> modal, cTbody |-> tbody]

\* both tabs were opened over a stored array
TabsStored == { LsJson(JsonArr(<< StoredCard, NumIdCard >>)), LsJson(JsonArr(<< >>)) }

InitTabs ==
    /\ CardsLoaded(TabsStored)
    /\ other = Instance(cards, cSort, cFilters, cForm, cModal, cTbody)
    /\ menu = NoMenu

\* the user brings the other tab to the front
SwitchTab ==
    /\ page = "cards"
    /\ other # NoTab
    /\ other' = Instance(cards, cSort, cFilters, cForm, cModal, cTbody)
    /\ cards' = other.cards
    /\ cSort' = other.cSort
    /\ cFilters' = other.cFilters
    /\ cForm' = other.cForm
    /\ cModal' = other.cModal
    /\ cTbody' = other.cTbody
    /\ last' = Ev("tab", Str(E), FALSE, "none", FALSE)
    /\ UNCHANGED << page, ls, clock, uidCtr, download, couponsVars, ksVars, serverVars,
                    fnVars, menu >>

NextTabs ==
    \/ BtnAdd
    \/ \E inp \in ValidCardInputs : BtnSave(inp)
    \/ \E r \in {cTbody[i] : i \in 1..Len(cTbody)} : TbodyEdit(rowAttr(r))
    \/ \E id \in {rowAttr(cTbody[i]) : i \in 1..Len(cTbody)} : TbodyDel(id, TRUE)
    \/ SwitchTab

SpecTabs == InitTabs /\ [][NextTabs]_vars

InitCoupons ==
    /\ page = "coupons"
    /\ \E raw \in CouponsStored : ls = SetItem(EmptyStore, STORAGE_KEY_COUPONS, raw)
    /\ clock = 0
    /\ uidCtr = 3
    /\ last = Ev("load", Str(E), FALSE, "none", FALSE)
    /\ download = NoFile
    /\ coupons = loadCoupons(ls, clock)
    /\ qSort = [by |-> "title", dir |-> "asc"]
    /\ qFilter = [q |-> E, status |-> E]
    /\ qForm = [id |-> E, title |-> E, code |-> E, discountType |-> E, value |-> E,
                start |-> E, end |-> E, maxUses |-> E, minPurchase |-> E,
                published |-> FALSE, description |-> E]
    /\ qModal = FALSE
    /\ qTbody = renderCoupons(coupons, qFilter, qSort, clock)
    /\ idleCards /\ idleKs /\ idleServer /\ idleFn /\ idleAux

SpecCoupons == InitCoupons /\ [][NextCoupons]_vars

InitKs ==
    /\ page \in KsPages
    /\ \E raw \in KsStored :
          \* the stored array has the shape cabinet-cards.js writes: the session
          \* that wrote it is continued on that page
          /\ ParsesToArray(raw) => page = "cabinet-cards.js"
          /\ ls = SetItem(EmptyStore, KS_CARDS, raw)
    /\ clock = 0
    /\ uidCtr = 3
    /\ last = Ev("load", Str(E), FALSE, "none", FALSE)
    /\ download = NoFile
    /\ kCards = IF page = "cabinet-cards.js"
                THEN SGet(ls, KS_CARDS, JsonArr(DEF_CARDS(clock))) ELSE JsonArr(<< >>)
    /\ kForm = [open |-> FALSE, editId |-> E]
    /\ kList = IF page = "cabinet-cards.js" /\ IsArr(kCards) THEN list(kCards) ELSE << >>
    /\ rows = IF page = "cabinet.js#cards" THEN loadRows(ls, KS_CARDS, demoCards) ELSE << >>
    /\ rowsTbody = rows
    /\ dRows = IF page = "cabinet.js#districts" THEN loadRows(ls, KS_CARDS, << >>)
               ELSE IF page = "cabinet.js#overview" THEN loadRows(ls, KS_CARDS, demoCards)
               ELSE << >>
    /\ keyUse = {Use(ScriptOf(page), KS_CARDS, "read")}
    /\ idleCards /\ idleCoupons /\ idleServer /\ idleFn /\ idleAux

SpecKs == InitKs /\ [][NextKs]_vars

InitServer ==
    /\ page = "server"
    /\ ls = EmptyStore
    /\ clock = 0
    /\ uidCtr = 0
    /\ last = Ev("load", Str(E), FALSE, "none", FALSE)
    /\ download = NoFile
    /\ idleCards /\ idleCoupons /\ idleKs /\ idleServer /\ idleFn /\ idleAux

SpecServer == InitServer /\ [][NextServer]_vars

\* the three kinds of page that keep a collection in local storage
Init == InitCards \/ InitCoupons \/ InitKs

Next == NextCards \/ NextCoupons \/ NextKs

Spec == Init /\ [][Next]_vars

(***************************************************************************)
(* Functions of the program applied to an argument.  The page is the name  *)
(* of the function, arg its argument and out, once it was applied, its     *)
(* result; everything else is at rest.                                     *)
(***************************************************************************)
NotApplied == << >>

InitFn(p) ==
    /\ page = p
    /\ ls = EmptyStore
    /\ clock = 0
    /\ uidCtr = 3
    /\ last = Ev("load", Str(E), FALSE, "none", FALSE)
    /\ download = NoFile
    /\ idleCards /\ idleCoupons /\ idleKs /\ idleServer /\ idleAux
    /\ out = NotApplied

fnFrame ==
    UNCHANGED << page, ls, clock, uidCtr, last, download,
                 cardsVars, couponsVars, ksVars, serverVars, auxVars, arg >>

\* the header clicks of the two sortable tables, and nothing else
InitSort == InitCards \/ InitCoupons

NextSort ==
    \/ \E by \in SortColumns : SortClick(by)
    \/ \E by \in CouponSortColumns : SortClickCoupon(by)

SpecSort == InitSort /\ [][NextSort]_vars

(***************************************************************************)
(* The three tables redrawn: the view handlers of the cards and of the     *)
(* coupons widget, and list() of the ks_cards script applied to a          *)
(* collection and to what the filter controls show.                        *)
(***************************************************************************)
\* collections of well-formed cards the ks_cards script can hold
ListCollections ==
    { JsonArr(DEF_CARDS(0)),
      JsonArr(<< DefCard(<< "p", "1" >>, << "P", "a" >>, CATEGORIES[1], DISTRICTS[1], StDraft, 2),
                 DefCard(<< "p", "2" >>, << "a", "b" >>, CATEGORIES[2], DISTRICTS[1], StDraft, 1),
                 DefCard(<< "p", "3" >>, << "A", "b" >>, CATEGORIES[1], DISTRICTS[2], StPublished, 1),
                 DefCard(<< "p", "3" >>, << "A", "b" >>, CATEGORIES[1], DISTRICTS[2], StPublished, 1) >>) }

\* what the search box and the selects of the page can show
ListControls ==
    [search : {E, << " ", "A", " " >>}, category : {E, CATEGORIES[1]},
     district : {E, DISTRICTS[1]}, status : {E, StDraft},
     sort : {"", "created_asc", "created_desc", "name_asc", "name_desc", "status", "rating"}]

InitList ==
    /\ InitFn("list")
    /\ \E v \in ListCollections : \E dom \in ListControls : arg = [coll |-> v, dom |-> dom]

\* list() runs: on DOMContentLoaded and on every input or change of a control
ApplyList ==
    /\ page = "list" /\ out = NotApplied
    /\ out' = listFiltered(arg.coll, arg.dom)
    /\ fnFrame

InitView == InitCards \/ InitCoupons \/ InitList

NextView == NextCardsView \/ NextCouponsView \/ ApplyList

SpecView == InitView /\ [][NextView]_vars

(***************************************************************************)
(* CSV files as tables of cells; the import of a file and of the same file *)
(* with its columns in another order.                                      *)
(***************************************************************************)
\* the text of the file whose lines hold the given cells
TableText(table) == Join([i \in 1..Len(table) |-> CsvLine(table[i])], CRLF)

\* the cells the cards export and the coupons export write
cardTable(arr) ==
    << CardHeader >> \o
    [i \in 1..Len(arr) |-> [j \in 1..Len(CardKeys) |-> cardCell(Get(arr[i], CardKeys[j]))]]

couponTable(arr) ==
    << CouponHeader >> \o
    [i \in 1..Len(arr) |-> [j \in 1..Len(CouponKeys) |-> couponCell(Get(arr[i], CouponKeys[j]))]]

\* a hand-written file: the second row has no name, the third repeats the
\* id of the first
CardTable1 ==
    << CardHeader,
       << Quoted(<< "n", "1" >>), Quoted(<< "N", "e" >>), Quoted(CATEGORIES[1]),
          Quoted(DISTRICTS[1]), << "7" >>, Quoted(StDraft), << "t", "r", "u", "e" >>,
          Quoted(<< "a", ",", "b" >>), Quoted(ISO(0)), Quoted(ISO(0)) >>,
       << Quoted(<< "n", "2" >>), Quoted(E), Quoted(CATEGORIES[1]),
          Quoted(DISTRICTS[1]), E, Quoted(StDraft), << "f", "a", "l", "s", "e" >>,
          Quoted(E), Quoted(ISO(0)), Quoted(ISO(0)) >>,
       << Quoted(<< "n", "1" >>), Quoted(<< "N", "o" >>), Quoted(CATEGORIES[2]),
          Quoted(DISTRICTS[2]), E, Quoted(StDraft), << "f", "a", "l", "s", "e" >>,
          Quoted(E), E, E >> >>

\* a file with three columns only, none of them the id
CardTable2 ==
    << << CardHeader[2], CardHeader[5], CardHeader[7] >>,
       << << "M", "e" >>, << "1", "2" >>, << "T", "R", "U", "E" >> >>,
       << << "Y", "o" >>, E, E >> >>

CouponTable1 ==
    << CouponHeader,
       << Quoted(<< "n", "1" >>), Quoted(<< "N", "e" >>), Quoted(<< "n", "e" >>),
          Quoted(Percent), << "7" >>, Quoted(DateStr(0)), Quoted(DateStr(1)), << "2" >>,
          << "1" >>, << "0" >>, << "t", "r", "u", "e" >>, Quoted(<< "a", ",", "b" >>),
          Quoted(ISO(0)), Quoted(ISO(0)) >>,
       << Quoted(<< "n", "2" >>), Quoted(<< "N", "o" >>), Quoted(E),
          Quoted(Percent), << "7" >>, Quoted(E), Quoted(E), << "0" >>, << "0" >>,
          << "0" >>, << "t", "r", "u", "e" >>, Quoted(E), Quoted(ISO(0)), Quoted(ISO(0)) >> >>

CouponTable2 ==
    << << CouponHeader[2], CouponHeader[3], CouponHeader[5] >>,
       << << "M", "e" >>, << "m" >>, << "-", "3" >> >>,
       << << "Y", "o" >>, << "y" >>, E >> >>

\* files whose rows repeat an id: twice the id of the first demo record, and
\* the text 7, which is what the row of a record with the number 7 as id shows
CardTable3 ==
    << << CardHeader[1], CardHeader[2] >>,
       << Uid(1), << "X" >> >>,
       << Uid(1), << "Y" >> >>,
       << << "7" >>, << "Z" >> >> >>

CouponTable3 ==
    << << CouponHeader[1], CouponHeader[2], CouponHeader[3] >>,
       << Uid(1), << "X" >>, << "x" >> >>,
       << Uid(1), << "Y" >>, << "y" >> >>,
       << << "7" >>, << "Z" >>, << "z" >> >> >>

\* the orders the n columns of a file can be written in: every rotation,
\* every exchange of two columns, and the reverse order
ColumnOrders(n) ==
    {[j \in 1..n |-> ((j - 1 + k) % n) + 1] : k \in 0..(n - 1)}
    \cup {[j \in 1..n |-> IF j = a THEN b ELSE IF j = b THEN a ELSE j] :
             a \in 1..n, b \in 1..n}
    \cup {[j \in 1..n |-> n + 1 - j]}

\* the table with the columns of every line, header included, in the order p
Permuted(table, p) ==
    [i \in 1..Len(table) |-> [j \in 1..Len(p) |-> table[i][p[j]]]]

CardTables == { cardTable(demo), cardTable(<< StoredCard, NumIdCard >>),
                CardTable1, CardTable2 }

CouponTables == { couponTable(demoCoupons(0)), couponTable(<< StoredCoupon, NumIdCoupon >>),
                  CouponTable1, CouponTable2 }

InitCsvColumns ==
    /\ InitFn("csv-columns")
    /\ \/ \E coll \in {demo, << StoredCard, NumIdCard >>} :
            \E table \in CardTables : \E p \in ColumnOrders(Len(table[1])) :
                arg = [widget |-> "cards", coll |-> coll, table |-> table, order |-> p]
       \/ \E coll \in {demoCoupons(0), << StoredCoupon, NumIdCoupon >>} :
            \E table \in CouponTables : \E p \in ColumnOrders(Len(table[1])) :
                arg = [widget |-> "coupons", coll |-> coll, table |-> table, order |-> p]

\* the cards widget exports arg.coll, and imports into it the file of arg.table
\* once as written and once with the columns in the order arg.order
CardColumns ==
    /\ page = "csv-columns" /\ arg.widget = "cards" /\ out = NotApplied
    /\ out' = [header   |-> tokenize(Head(SplitLines(exportCards(arg.coll)))),
               fields   |-> DOMAIN cardFromRow(arg.table[1], arg.table[2], clock, Uid(uidCtr + 1)),
               plain    |-> importCards(TableText(arg.table), arg.coll, uidCtr, clock),
               permuted |-> importCards(TableText(Permuted(arg.table, arg.order)),
                                        arg.coll, uidCtr, clock)]
    /\ fnFrame

\* the same for the coupons widget
CouponColumns ==
    /\ page = "csv-columns" /\ arg.widget = "coupons" /\ out = NotApplied
    /\ out' = [header   |-> tokenize(Head(SplitLines(exportCoupons(arg.coll)))),
               fields   |-> DOMAIN couponFromRow(arg.table[1], arg.table[2], clock, Uid(uidCtr + 1)),
               plain    |-> importCoupons(TableText(arg.table), arg.coll, uidCtr, clock),
               permuted |-> importCoupons(TableText(Permuted(arg.table, arg.order)),
                                          arg.coll, uidCtr, clock)]
    /\ fnFrame

NextCsvColumns == CardColumns \/ CouponColumns

SpecCsvColumns == InitCsvColumns /\ [][NextCsvColumns]_vars

(***************************************************************************)
(* Add, edit, delete and CSV import on both widgets, with files whose rows *)
(* repeat ids and files without an id column.                              *)
(***************************************************************************)
IdCardFiles ==
    { File("cards.csv", TableText(CardTable1)), File("cards.csv", TableText(CardTable2)),
      File("cards.csv", TableText(CardTable3)) }

IdCouponFiles ==
    { File("coupons.csv", TableText(CouponTable1)), File("coupons.csv", TableText(CouponTable2)),
      File("coupons.csv", TableText(CouponTable3)) }

InitIds == InitCards \/ InitCoupons

NextIds ==
    \/ BtnAdd
    \/ \E inp \in ValidCardInputs : BtnSave(inp)
    \/ \E r \in {cTbody[i] : i \in 1..Len(cTbody)} : TbodyEdit(rowAttr(r))
    \/ \E id \in {rowAttr(cTbody[i]) : i \in 1..Len(cTbody)} : TbodyDel(id, TRUE)
    \/ \E file \in IdCardFiles : ImportCsv(file)
    \/ BtnAddCoupon
    \/ \E inp \in ValidCouponInputs : BtnSaveCoupon(inp)
    \/ \E r \in {qTbody[i] : i \in 1..Len(qTbody)} : TbodyEditCoupon(rowAttr(r))
    \/ \E id \in {rowAttr(qTbody[i]) : i \in 1..Len(qTbody)} : TbodyDelCoupon(id, TRUE)
    \/ \E file \in IdCouponFiles : ImportCsvCoupons(file)

SpecIds == InitIds /\ [][NextIds]_vars

(***************************************************************************)
(* One exported line, tokenized.                                           *)
(***************************************************************************)
MaxField  == 2      \* the longest field value, in characters
MaxFields == 2      \* the most fields on a line

\* the characters of a field value: a letter, a comma, a double quote
FieldChars == {"a", ",", "\""}

RECURSIVE StringsUpTo(_, _)
StringsUpTo(chars, n) ==
    IF n = 0 THEN {E}
    ELSE LET shorter == StringsUpTo(chars, n - 1) IN
         shorter \cup {Append(x, ch) : x \in shorter, ch \in chars}

FieldValues == StringsUpTo(FieldChars, MaxField)

\* the rows of at least one string value
FieldRows == UNION {[1..n -> FieldValues] : n \in 1..MaxFields}

InitCsvLine ==
    /\ InitFn("csv-line")
    /\ arg \in FieldRows

\* row.join(',') of either export for a row of strings, then the tokenizer
TokenizeLine ==
    /\ page = "csv-line" /\ out = NotApplied
    /\ out' = [cards   |-> tokenize(CsvLine([i \in 1..Len(arg) |-> cardCell(Str(arg[i]))])),
               coupons |-> tokenize(CsvLine([i \in 1..Len(arg) |-> couponCell(Str(arg[i]))]))]
    /\ fnFrame

NextCsvLine == TokenizeLine

SpecCsvLine == InitCsvLine /\ [][NextCsvLine]_vars

(***************************************************************************)
(* frontend/src/utils/validation.ts: validatePassword.                     *)
(***************************************************************************)
MinPasswordLength == 8

MsgTooShort  == << "m", "i", "n", "8" >>    \* 'at least 8 characters'
MsgNoCapital == << "c", "a", "p" >>         \* 'at least one capital letter'
MsgNoDigit   == << "d", "i", "g" >>         \* 'at least one digit'

IsUpper(ch) == \E i \in 1..Len(Uppers) : Uppers[i] = ch
IsLower(ch) == \E i \in 1..Len(Lowers) : Lowers[i] = ch

\* /[A-Z]/.test(s) and /[0-9]/.test(s)
HasUpper(s) == \E i \in 1..Len(s) : IsUpper(s[i])
HasDigit(s) == \E i \in 1..Len(s) : IsDigit(s[i])

\* validatePassword(password): the error message, or null
validatePassword(password) ==
    IF Len(password) < MinPasswordLength THEN Str(MsgTooShort)
    ELSE IF ~HasUpper(password) THEN Str(MsgNoCapital)
    ELSE IF ~HasDigit(password) THEN Str(MsgNoDigit)
    ELSE Null

MaxPassword == 8    \* the longest password tried

\* one character of each kind: capital, small, digit, special
PasswordChars == {"A", "a", "1", "|"}

\* the passwords of the two greatest lengths
Passwords == UNION {[1..n -> PasswordChars] : n \in (MaxPassword - 1)..MaxPassword}

InitPassword ==
    /\ InitFn("password")
    /\ arg \in Passwords

Validate ==
    /\ page = "password" /\ out = NotApplied
    /\ out' = validatePassword(arg)
    /\ fnFrame

NextPassword == Validate

SpecPassword == InitPassword /\ [][NextPassword]_vars

(***************************************************************************)
(* statusOf applied to a coupon at an instant.  The coupons are the ones   *)
(* the CSV import builds from a row, so each of them can be in the         *)
(* collection.                                                             *)
(***************************************************************************)
MaxDay == 2         \* the dates of a coupon are the days 0..MaxDay

\* the columns of the rows below
StatusHeader ==
    << CouponHeader[2], CouponHeader[3], CouponHeader[11], CouponHeader[6],
       CouponHeader[7], CouponHeader[8], CouponHeader[9] >>

\* what a date cell can hold: nothing, a day, or text that is no date
DateCells == {E, << "x", "x" >>} \cup {DateStr(d) : d \in 0..MaxDay}

StatusRows ==
    { << << "T" >>, << "Z" >>, pub, st, en, mx, us >> :
        pub \in {<< "t", "r", "u", "e" >>, << "f", "a", "l", "s", "e" >>},
        st \in DateCells, en \in DateCells,
        mx \in {E, << "0" >>, << "1" >>, << "2" >>, << "-", "1" >>},
        us \in {E, << "1" >>, << "2" >>} }

StatusCoupons == {couponFromRow(StatusHeader, r, 0, Uid(4)) : r \in StatusRows}

\* the instants from the start of day 0 to the start of the day after MaxDay
Instants == 0..((MaxDay + 1) * DayTicks)

InitStatus ==
    /\ InitFn("status")
    /\ \E c \in StatusCoupons : \E now \in Instants : arg = [c |-> c, now |-> now]

ApplyStatusOf ==
    /\ page = "status" /\ out = NotApplied
    /\ out' = statusOf(arg.c, arg.now)
    /\ fnFrame

NextStatus == ApplyStatusOf

SpecStatus == InitStatus /\ [][NextStatus]_vars

(***************************************************************************)
(* The local-storage helpers of the frontend (utils/storage.ts).  arg is   *)
(* the call: whether there is a window, whether the browser refuses the    *)
(* write (quota, storage switched off), the key, the value and the         *)
(* default; out is what the calls made so far returned, logged and threw.  *)
(***************************************************************************)
\* JSON.stringify(value) as setItem stores it: undefined becomes the text
\* "undefined", NaN the text "null", undefined properties are dropped
stringifyAny(v) ==
    IF v.t = "undef" THEN LsGarbage
    ELSE IF v.t = "nan" THEN LsJson(Null)
    ELSE StringifyValue(v)

\* what the calls return: the value, whether console.error ran, whether an
\* exception left the function
Returned(v, logged, threw) == [value |-> v, logged |-> logged, threw |-> threw]

\* saveToLocalStorage: the store afterwards and what the call did
saveToLocalStorage(store, window, refused, key, value) ==
    IF ~window THEN [store |-> store, ret |-> Returned(Undef, FALSE, FALSE)]
    ELSE IF refused                             \* setItem throws, the catch logs
    THEN [store |-> store, ret |-> Returned(Undef, TRUE, FALSE)]
    ELSE [store |-> SetItem(store, key, stringifyAny(value)),
          ret |-> Returned(Undef, FALSE, FALSE)]

\* a faulty variant of getFromLocalStorage: JSON.parse outside the try
getFromLocalStorageNoCatch(store, window, key, defaultValue) ==
    IF ~window THEN Returned(defaultValue, FALSE, FALSE)
    ELSE LET serializedValue == GetItem(store, key) IN
         IF serializedValue.k = "absent" THEN Returned(defaultValue, FALSE, FALSE)
         ELSE IF ParseThrows(serializedValue) THEN Returned(Undef, FALSE, TRUE)
         ELSE Returned(serializedValue.v, FALSE, FALSE)

\* getFromLocalStorage
getFromLocalStorage(store, window, key, defaultValue) ==
    IF ~window THEN Returned(defaultValue, FALSE, FALSE)
    ELSE LET serializedValue == GetItem(store, key) IN
         IF serializedValue.k = "absent" THEN Returned(defaultValue, FALSE, FALSE)
         ELSE IF ParseThrows(serializedValue) THEN Returned(defaultValue, TRUE, FALSE)
         ELSE Returned(serializedValue.v, FALSE, FALSE)

\* values a caller may pass: JSON-representable ones, and undefined, NaN and
\* an object with such properties, which JSON does not keep
StorageRecord == [id |-> Str(<< "a" >>), n |-> Num(1)]

StorageValues ==
    { Null, Num(0), Num(7), Str(E), Str(<< "a" >>), Bool(FALSE),
      JsonArr(<< >>), JsonArr(<< StorageRecord >>),
      Undef, NaN, JsonArr(<< [id |-> Str(<< "a" >>), n |-> NaN, u |-> Undef] >>) }

StorageDefaults == { Null, Str(<< "d" >>), JsonArr(<< >>) }

\* what the key holds before the calls
StorageContents == { LsAbsent, LsEmpty, LsGarbage, LsJson(Null), LsJson(Str(<< "o" >>)) }

InitStorage ==
    /\ page = "storage.ts"
    /\ clock = 0
    /\ uidCtr = 3
    /\ last = Ev("load", Str(E), FALSE, "none", FALSE)
    /\ download = NoFile
    /\ idleCards /\ idleCoupons /\ idleKs /\ idleServer /\ idleAux
    /\ \E window \in BOOLEAN, refused \in BOOLEAN, key \in Keys, raw \in StorageContents,
          v \in StorageValues, d \in StorageDefaults :
          /\ ~window => (raw = LsAbsent /\ ~refused)      \* on the server there is no storage
          /\ ls = SetItem(EmptyStore, key, raw)
          /\ arg = [window |-> window, refused |-> refused, key |-> key, held |-> raw,
                    value |-> v, defaultValue |-> d]
    /\ out = << >>

storageFrame ==
    UNCHANGED << page, clock, uidCtr, last, download,
                 cardsVars, couponsVars, ksVars, serverVars, auxVars, arg >>

\* a call of saveToLocalStorage(key, value)
SaveToLocalStorage ==
    /\ page = "storage.ts"
    /\ out = << >>
    /\ LET r == saveToLocalStorage(ls, arg.window, arg.refused, arg.key, arg.value) IN
       /\ ls' = r.store
       /\ out' = << [fn |-> "save", ret |-> r.ret] >>
    /\ storageFrame

\* a call of getFromLocalStorage(key, defaultValue)
GetFromLocalStorage ==
    /\ page = "storage.ts"
    /\ Len(out) < 2 /\ (out # << >> => out[Len(out)].fn = "save")
    /\ out' = Append(out, [fn |-> "get",
                           ret |-> getFromLocalStorage(ls, arg.window, arg.key,
                                                       arg.defaultValue)])
    /\ ls' = ls
    /\ storageFrame

NextStorage == SaveToLocalStorage \/ GetFromLocalStorage

SpecStorage == InitStorage /\ [][NextStorage]_vars

(***************************************************************************)
(* isAuthenticated (services/api/auth.ts) over fetchApi and handleResponse *)
(* (services/api/config.ts).  arg is what the network does with the        *)
(* current-user request; out is the promise settled last in the chain      *)
(* fetch -> handleResponse -> getCurrentUser -> isAuthenticated.           *)
(***************************************************************************)
Fulfilled(v) == [k |-> "fulfilled", v |-> v]
Rejected(e)  == [k |-> "rejected", e |-> e]

\* the bodies a response can carry: nothing or text that is no JSON, and the
\* JSON texts of null, a number, an empty object, a user and an error message
BodyUser    == [user |-> [id |-> Str(<< "7" >>)]]
BodyMessage == [message |-> Str(<< "n", "o" >>)]
EmptyObject == [x \in {} |-> Null]

Bodies == { LsEmpty, LsGarbage, LsJson(Null), LsJson(Num(1)), LsJson(EmptyObject),
            LsJson(BodyUser), LsJson(BodyMessage) }

Statuses == {200, 201, 204, 400, 401, 403, 404, 500}

\* Response.ok
ResponseOk(status) == status \in 200..299

\* what the network does: the request fails, or a response arrives
NetworkOutcomes ==
    { [net |-> "error"] } \cup
    { [net |-> "response", status |-> st, body |-> b] : st \in Statuses, b \in Bodies }

\* o.p for a value read from JSON: a TypeError on null, undefined where the
\* property is missing or the value is no object
Property(o, p) ==
    IF o.t = "null" THEN Rejected("TypeError")
    ELSE IF p \in DOMAIN o THEN Fulfilled(o[p]) ELSE Fulfilled(Undef)

\* of a value of the model that is a JSON object: a record without a tag
IsObject(o) == "t" \notin DOMAIN o

PropertyOf(o, p) == IF IsObject(o) THEN Property([t |-> "obj"] @@ o, p) ELSE Property(o, p)

\* await fetch(url, ...)
fetch(a) ==
    IF a.net = "error" THEN Rejected("TypeError")
    ELSE Fulfilled([status |-> a.status, body |-> a.body])

\* handleResponse: response.json().catch(() => ({})), then the ok test
handleResponse(response) ==
    LET data == IF response.body.k = "json" THEN response.body.v ELSE EmptyObject IN
    IF ~ResponseOk(response.status)
    THEN IF PropertyOf(data, "message").k = "rejected"
         THEN Rejected("TypeError")
         ELSE Rejected("ApiError")
    ELSE Fulfilled(data)

\* fetchApi: return handleResponse(await fetch(...))
fetchApi(a) ==
    IF fetch(a).k = "rejected" THEN fetch(a) ELSE handleResponse(fetch(a).v)

\* getCurrentUser: (await api.get(...)).user
getCurrentUser(a) ==
    IF fetchApi(a).k = "rejected" THEN fetchApi(a) ELSE PropertyOf(fetchApi(a).v, "user")

\* a faulty variant of isAuthenticated: no try around the await
isAuthenticatedNoCatch(a) ==
    IF getCurrentUser(a).k = "rejected" THEN getCurrentUser(a) ELSE Fulfilled(Bool(TRUE))

\* isAuthenticated: try { await getCurrentUser(); return true } catch { return false }
isAuthenticated(a) ==
    IF getCurrentUser(a).k = "rejected" THEN Fulfilled(Bool(FALSE)) ELSE Fulfilled(Bool(TRUE))

InitAuth ==
    /\ InitFn("isAuthenticated")
    /\ arg \in NetworkOutcomes

\* the promise of stage at settles as p
Settle(from, at, p) ==
    /\ page = "isAuthenticated"
    /\ IF from = "" THEN out = NotApplied ELSE (out # NotApplied /\ out.at = from)
    /\ out' = [at |-> at, p |-> p]
    /\ fnFrame

FetchSettles           == Settle("", "fetch", fetch(arg))
FetchApiSettles        == Settle("fetch", "fetchApi", fetchApi(arg))
GetCurrentUserSettles  == Settle("fetchApi", "getCurrentUser", getCurrentUser(arg))
IsAuthenticatedSettles == Settle("getCurrentUser", "isAuthenticated", isAuthenticated(arg))

NextAuth ==
    \/ FetchSettles
    \/ FetchApiSettles
    \/ GetCurrentUserSettles
    \/ IsAuthenticatedSettles

SpecAuth == InitAuth /\ [][NextAuth]_vars

(***************************************************************************)
(* The mobile sidebar of the dashboard (public/script.js, lines 91-135).   *)
(* menu holds the three classes the script sets and removes, and the       *)
(* width of the window.                                                    *)
(***************************************************************************)
WideAbove == 900        \* window.innerWidth > 900 closes the menu

\* the widths a window is resized to
Widths == {320, 600, WideAbove, WideAbove + 1, 1280}

\* a faulty variant of close: the backdrop keeps its class
closeLeavesBackdrop(m) == [m EXCEPT !.sidebar = FALSE, !.body = FALSE]

\* open: classList.add on the sidebar, the backdrop and the body
open(m) == [m EXCEPT !.sidebar = TRUE, !.backdrop = TRUE, !.body = TRUE]

\* close: classList.remove on the three
close(m) == [m EXCEPT !.sidebar = FALSE, !.backdrop = FALSE, !.body = FALSE]

\* the script has run on a dashboard page: no class is set
InitMenu ==
    /\ page = "script.js"
    /\ ls = EmptyStore
    /\ clock = 0
    /\ uidCtr = 3
    /\ last = Ev("load", Str(E), FALSE, "none", FALSE)
    /\ download = NoFile
    /\ idleCards /\ idleCoupons /\ idleKs /\ idleServer /\ idleFn
    /\ other = NoTab
    /\ \E w \in Widths : menu = [sidebar |-> FALSE, backdrop |-> FALSE, body |-> FALSE,
                                  width |-> w]

menuFrame ==
    UNCHANGED << page, ls, uidCtr, download, cardsVars, couponsVars, ksVars, serverVars,
                 fnVars, other >>

\* click on #menuToggle
MenuToggleClick ==
    /\ page = "script.js"
    /\ Elapse
    /\ menu' = IF menu.sidebar THEN close(menu) ELSE open(menu)
    /\ last' = Ev("menu", Str(E), FALSE, "none", TRUE)
    /\ menuFrame

\* click on the backdrop
BackdropClick ==
    /\ page = "script.js"
    /\ Elapse
    /\ menu' = close(menu)
    /\ last' = Ev("backdrop", Str(E), FALSE, "none", TRUE)
    /\ menuFrame

\* click on a .nav-item of the sidebar
NavItemClick ==
    /\ page = "script.js"
    /\ Elapse
    /\ menu' = close(menu)
    /\ last' = Ev("nav", Str(E), FALSE, "none", TRUE)
    /\ menuFrame

\* keydown on the document
KeyDown(key) ==
    /\ page = "script.js"
    /\ Elapse
    /\ menu' = IF key = << "E", "s", "c", "a", "p", "e" >> THEN close(menu) ELSE menu
    /\ last' = Ev("key", Str(key), FALSE, "none", TRUE)
    /\ menuFrame

\* the window is resized to width w: applyCloseOnWide
Resize(w) ==
    /\ page = "script.js"
    /\ Elapse
    /\ LET sized == [menu EXCEPT !.width = w] IN
       menu' = IF w > WideAbove THEN close(sized) ELSE sized
    /\ last' = Ev("resize", Str(E), FALSE, "none", TRUE)
    /\ menuFrame

NextMenu ==
    \/ MenuToggleClick
    \/ BackdropClick
    \/ NavItemClick
    \/ \E key \in {<< "E", "s", "c", "a", "p", "e" >>, << "E", "n", "t", "e", "r" >>} : KeyDown(key)
    \/ \E w \in Widths : Resize(w)

SpecMenu == InitMenu /\ [][NextMenu]_vars

(***************************************************************************)
(* The claims.                                                             *)
(***************************************************************************)

\* the records a and b agree on every one of the keys
SameRecord(a, b, keys) == \A i \in 1..Len(keys) : Get(a, keys[i]) = Get(b, keys[i])

\* arr without the records whose id is x, the others in their order
Without(arr, x) == SelectSeq(arr, LAMBDA c : Get(c, "id") # x)

\* C1 (as claimed): CSV round trip.  When the cards or the coupons widget
\* exports its collection and the exported file is imported next, every
\* exported record has afterwards a record with the same id and the same
\* value in every exported column, updatedAt included.
RoundTrip ==
    [][ /\ ( /\ page = "cards" /\ last.op = "export" /\ last'.op = "import"
             /\ cards' = importCards(download.text, cards, uidCtr, clock).arr )
           => \A i \in 1..Len(cards) : \E j \in 1..Len(cards') :
                  SameRecord(cards'[j], cards[i], CardKeys)
        /\ ( /\ page = "coupons" /\ last.op = "export" /\ last'.op = "import"
             /\ coupons' = importCoupons(download.text, coupons, uidCtr, clock).arr )
           => \A i \in 1..Len(coupons) : \E j \in 1..Len(coupons') :
                  SameRecord(coupons'[j], coupons[i], CouponKeys)
      ]_vars

\* C2: delete.  After a confirmed deletion of the record with id X on the
\* cards page (either script) or the coupons page, the collection in memory,
\* the drawn table and the stored array hold no record with id X, and hold
\* every other record they held, in the same relative order.
DeleteRemoves ==
    [][ (last'.op = "del" /\ last'.confirm = "yes") =>
          LET X == last'.id IN
          /\ page = "cards" =>
               /\ cards' = Without(cards, X)
               /\ cTbody' = Without(cTbody, X)
               /\ GetItem(ls', STORAGE_KEY) = Stringify(Without(cards, X))
          /\ page = "coupons" =>
               /\ coupons' = Without(coupons, X)
               /\ qTbody' = Without(qTbody, X)
               /\ GetItem(ls', STORAGE_KEY_COUPONS) = Stringify(Without(coupons, X))
          /\ page = "cabinet-cards.js" =>
               /\ kCards' = JsonArr(Without(kCards.items, X))
               /\ kList' = Without(kList, X)
               /\ GetItem(ls', KS_CARDS) = Stringify(Without(kCards.items, X))
      ]_vars

\* C2, witness: a confirmed deletion took a record away and left others
DeleteRemovesWitness ==
    /\ last.op = "del" /\ last.confirm = "yes" /\ last.done
    /\ \/ page = "cards" /\ Len(cards) >= 2 /\ Len(cTbody) >= 2
       \/ page = "coupons" /\ Len(coupons) >= 2
       \/ page = "cabinet-cards.js" /\ Len(kList) >= 2


\* the key of the page on display, and its value when memory is serialized
PageKey ==
    IF page = "cards" THEN STORAGE_KEY
    ELSE IF page = "coupons" THEN STORAGE_KEY_COUPONS ELSE KS_CARDS

Serialized ==
    IF page = "cards" THEN Stringify(cards)
    ELSE IF page = "coupons" THEN Stringify(coupons)
    ELSE IF page = "cabinet-cards.js" THEN StringifyValue(kCards)
    ELSE IF page = "cabinet.js#cards" THEN Stringify(rows)
    ELSE Stringify(dRows)

Synced == GetItem(ls, PageKey) = Serialized

\* C3: persistence.  Every handler that completes a mutation (add, edit,
\* delete, publish/unpublish, import) leaves under the page's key the JSON
\* serialization of the collection in memory, and while the page stays on
\* display no later handler makes the two diverge again.
PersistenceInvariant ==
    [][ /\ last'.done => Synced'
        /\ (Synced /\ page' = page) => Synced'
      ]_vars

\* C3, witness: mutations completed on each of the three sources
PersistenceWitness ==
    /\ last.done /\ last.op \in {"save", "pub", "add", "edit", "import", "del"}
    /\ page \in {"cards", "cabinet-cards.js", "cabinet.js#cards"}
    /\ Synced
    /\ clock >= 2

\* the stored text is absent or is not JSON
Unparseable(raw) == raw.k # "json"

\* C4: load fallback.  Right after a page script has loaded, if its key is
\* absent or holds text that is not JSON, the collection in memory is the
\* script's hard-coded default array; loading writes nothing to storage.
LoadFallback ==
    /\ [] ( (last.op = "load" /\ Unparseable(GetItem(ls, PageKey))) =>
              \E now \in 0..clock :
                /\ page = "cards" => cards = demo
                /\ page = "coupons" => coupons = demoCoupons(now)
                /\ page = "cabinet-cards.js" =>
                       kCards = JsonArr(DEF_CARDS(now)) /\ Len(kList) = 3
                /\ page = "cabinet.js#cards" => rows = demoCards
                /\ page = "cabinet.js#overview" => dRows = demoCards
                /\ page = "cabinet.js#districts" => dRows = << >> )
    /\ [][ last'.op = "load" => ls' = ls ]_vars

\* C4, witness: a page loaded over text that is not JSON, another over nothing
LoadFallbackWitness ==
    /\ last.op = "load"
    /\ \/ page = "cards" /\ GetItem(ls, STORAGE_KEY) = LsGarbage /\ Len(cards) = 3
       \/ page = "cabinet.js#cards" /\ GetItem(ls, KS_CARDS) = LsAbsent
          /\ clock > 0 /\ Len(rows) = 3

\* what the claims call a blank field, and a number in a range
Blank(s) == Trim(s) = E

NaturalIn(s, lo, hi) ==
    AllDigits(Trim(s)) /\ DigitsVal(Trim(s), 0) >= lo /\ DigitsVal(Trim(s), 0) <= hi

\* C5: card form validation.  Saving the card form with a blank name, or with
\* a discount that is not blank and is not a number in 0..99, shows an alert and
\* leaves the cards in memory, the stored array and the open form as they
\* were; with a name and a blank discount the card is saved with discount null.
CardValidation ==
    [][ \A inp \in CardInputs : BtnSave(inp) =>
          LET bad == Blank(inp.name)
                     \/ (~Blank(inp.discount) /\ ~NaturalIn(inp.discount, 0, 99))
          IN  /\ bad => /\ last'.alert /\ ~last'.done
                        /\ cards' = cards /\ ls' = ls /\ cTbody' = cTbody
                        /\ cModal' = cModal /\ cForm' = typeCard(cForm, inp)
              /\ (~bad /\ Blank(inp.discount)) =>
                    /\ last'.done /\ ~last'.alert
                    /\ \E i \in 1..Len(cards') :
                          /\ Get(cards'[i], "id") = last'.id
                          /\ Get(cards'[i], "discount") = Null
                          /\ GetItem(ls', STORAGE_KEY).v.items[i].discount = Null
      ]_vars

\* C5, witness: a discount out of range was rejected while a card was edited
CardValidationWitness ==
    /\ page = "cards" /\ last.op = "save" /\ last.alert
    /\ cModal /\ cForm.fId # E /\ ~Blank(cForm.fName) /\ ~Blank(cForm.fDiscount)

\* start is a later day than end
LaterDay(start, end) ==
    \E a \in 0..9 : \E b \in 0..9 :
        Trim(start) = DateStr(a) /\ Trim(end) = DateStr(b) /\ a > b

\* C6: coupon form validation.  Saving the coupon form is rejected, leaving
\* the coupons and the stored array as they were, when the title or the code
\* is blank, when the value is missing, not a number or not above 0, or when
\* start and end are both given and start is later than end; a form that is
\* otherwise valid and has start equal to end is accepted.
CouponValidation ==
    [][ \A inp \in CouponInputs : BtnSaveCoupon(inp) =>
          LET noValue == ~(\E n \in 1..99 : NaturalIn(inp.value, n, n))
              bad == \/ Blank(inp.title) \/ Blank(inp.code) \/ noValue
                     \/ (~Blank(inp.start) /\ ~Blank(inp.end) /\ LaterDay(inp.start, inp.end))
          IN  /\ bad => /\ last'.alert /\ ~last'.done
                        /\ coupons' = coupons /\ ls' = ls /\ qTbody' = qTbody
              /\ ( /\ ~Blank(inp.title) /\ ~Blank(inp.code) /\ ~noValue
                   /\ ~Blank(inp.start) /\ Trim(inp.start) = Trim(inp.end) ) =>
                    /\ last'.done /\ ~last'.alert
                    /\ \E i \in 1..Len(coupons') :
                          /\ Get(coupons'[i], "id") = last'.id
                          /\ Get(coupons'[i], "start") = Get(coupons'[i], "end")
      ]_vars

\* C6, witness: a period that ends before it starts was rejected
CouponValidationWitness ==
    /\ page = "coupons" /\ last.op = "save" /\ last.alert
    /\ LaterDay(qForm.start, qForm.end)

\* C7: declined confirmation.  When the delete of a row is answered "no", or
\* the row's id is that of no record of the collection, the collection in
\* memory, the stored array and the drawn table stay as they were.
DeclinedUnchanged ==
    [][ (last'.op = "del" /\ page \in {"cards", "coupons", "cabinet-cards.js"}) =>
          LET X == last'.id
              absent == IF page = "cards" THEN X \notin Ids(cards)
                        ELSE IF page = "coupons" THEN X \notin Ids(coupons)
                        ELSE X \notin Ids(kCards.items)
          IN  (last'.confirm = "no" \/ absent) =>
                 /\ ls' = ls
                 /\ cards' = cards /\ cTbody' = cTbody
                 /\ coupons' = coupons /\ qTbody' = qTbody
                 /\ kCards' = kCards /\ kList' = kList
      ]_vars


\* C7, witness: a confirmed delete of a row whose id (the number 7, drawn as
\* "7") is that of no record, and the row is still there
DeclinedUnchangedWitness ==
    /\ page = "cabinet-cards.js"
    /\ last.op = "del" /\ last.confirm = "yes"
    /\ last.id \notin Ids(kCards.items)
    /\ \E i \in 1..Len(kList) : rowAttr(kList[i]) = last.id

\* the cards that pass the filters f, the name compared as lower(c) writes it
Passing(arr, f, lower(_)) ==
    SelectSeq(arr, LAMBDA c :
        /\ f.q = E \/ Includes(lower(Get(c, "name").s), f.q)
        /\ f.category = E \/ Get(c, "category").s = f.category
        /\ f.district = E \/ Get(c, "district").s = f.district
        /\ f.status = E \/ Get(c, "status").s = f.status)

AsWritten(s) == s

\* the rows a and b are the same records, whatever their order
SameRows(a, b) ==
    /\ Len(a) = Len(b)
    /\ \A r \in {a[i] : i \in 1..Len(a)} \cup {b[i] : i \in 1..Len(b)} :
          Cardinality({i \in 1..Len(a) : a[i] = r}) = Cardinality({i \in 1..Len(b) : b[i] = r})

\* the text last typed into the search box is kept trimmed and lower-cased
SearchKept == last.op = "search" => cFilters.q = ToLowerCase(Trim(last.id.s))

\* C8 (as claimed): the rows drawn on the cards page are exactly the cards
\* whose name contains the lower-cased trimmed search text and whose category,
\* district and status equal the selected ones, an empty filter restricting
\* nothing.
FilteringAsClaimed ==
    page = "cards" =>
        SameRows(cTbody, Passing(cards, cFilters, AsWritten)) /\ SearchKept

\* C8 (amended): the same, the search text being looked for in the
\* lower-cased name, so that the search ignores the case of the name.
Filtering ==
    page = "cards" =>
        SameRows(cTbody, Passing(cards, cFilters, ToLowerCase)) /\ SearchKept

\* C8, witness: a typed search text hides some cards and shows others
FilteringWitness ==
    /\ page = "cards" /\ last.op = "search" /\ cFilters.q # E /\ last.id.s # cFilters.q
    /\ Len(cTbody) > 0 /\ Len(cTbody) < Len(cards)

\* the request is a GET of the i-th fixed path
FixedPath(r, i) == r.method = "GET" /\ r.path = Path(Routes[i].segs, "", FALSE)

\* C9: routing.  A GET of each of the eleven fixed paths is answered with its
\* HTML file; a request that matches no static file and no route is answered
\* 404 "Not Found"; a request repeated right away gets the same answer.
Routing ==
    (layer = 0 /\ req # NoReq) =>
        /\ \A i \in 1..Len(Routes) : FixedPath(req, i) =>
               /\ res.status = 200 /\ res.type = "html"
               /\ res.body = FileBody(PublicFile(Routes[i].file, "html"))
        /\ ( /\ ~(req.method = "GET" /\ StaticFiles(req.path) # {})
             /\ ~(\E i \in 1..Len(Routes) :
                     req.method = "GET" /\ req.path.ext = "" /\ req.path.segs = Routes[i].segs) )
           => res.status = 404 /\ res.body = TextBody("Not Found")
        /\ served.req = req => res = served.res

\* C9, witness: a fixed path answered after the same path was answered before
RoutingWitness ==
    /\ layer = 0 /\ FixedPath(req, 5) /\ served.req = req /\ res.status = 200

\* C10 (as claimed): key isolation.  No key is written by one script and read
\* or written by another, and the rows cabinet.js loads have its own shape.
KeyIsolation ==
    /\ \A u \in keyUse : \A w \in keyUse :
          (u[2] = w[2] /\ u[3] = "write") => u[1] = w[1]
    /\ \A i \in 1..Len(rows) : DOMAIN rows[i] \subseteq {"name", "cat", "dist", "st"}
    /\ \A i \in 1..Len(dRows) : DOMAIN dRows[i] \subseteq {"name", "cat", "dist", "st"}

\* the property names of a list of keys
KeySet(keys) == {keys[i] : i \in 1..Len(keys)}

\* C11: CSV header mapping.  The import finds every field by the name of its
\* column in the header row: a file whose columns (header and data rows
\* alike) are written in another order gives the same collection, and the
\* same ids handed out, as the file in its own order; and the header row of
\* an export is the list of the field names of a record, one column each.
CsvHeaderMapping ==
    (page = "csv-columns" /\ out # NotApplied) =>
        /\ out.permuted = out.plain
        /\ out.header = (IF arg.widget = "cards" THEN CardHeader ELSE CouponHeader)
        /\ out.fields = KeySet(IF arg.widget = "cards" THEN CardKeys ELSE CouponKeys)
        /\ Cardinality(out.fields) = Len(out.header)

\* a file with its first and last column exchanged was imported, and the
\* import changed the collection
CsvHeaderMappingWitness ==
    /\ page = "csv-columns" /\ out # NotApplied
    /\ arg.order[1] = Len(arg.order) /\ Len(arg.order) > 3
    /\ arg.table[1] # Permuted(arg.table, arg.order)[1]
    /\ out.permuted.arr # arg.coll
    /\ out.permuted = out.plain

\* C12: CSV field escaping.  A row of one or more string values without a
\* line break (commas, double quotes, blanks and the empty string included),
\* written as either export writes it and read by the tokenizer, comes back
\* as the same values, as many as were written.
FieldEscaping ==
    (page = "csv-line" /\ out # NotApplied) =>
        /\ out.cards = arg /\ Len(out.cards) = Len(arg)
        /\ out.coupons = arg /\ Len(out.coupons) = Len(arg)

\* a row of an empty value and a value holding a quote and a comma came back
FieldEscapingWitness ==
    /\ page = "csv-line" /\ out # NotApplied
    /\ Len(arg) = 2 /\ arg[1] = E /\ arg[2] = << "\"", "," >>
    /\ out.cards = arg

\* a character that is neither a letter nor a digit
IsSpecial(ch) == ~IsUpper(ch) /\ ~IsLower(ch) /\ ~IsDigit(ch)

\* C13 (as claimed): password requirements.  Every password validatePassword
\* accepts (it returns null) has at least 8 characters, a capital letter, a
\* small letter, a digit and a special character.
PasswordRequirements ==
    (page = "password" /\ out = Null) =>
        /\ Len(arg) >= 8
        /\ \E i \in 1..Len(arg) : IsUpper(arg[i])
        /\ \E i \in 1..Len(arg) : IsLower(arg[i])
        /\ \E i \in 1..Len(arg) : IsDigit(arg[i])
        /\ \E i \in 1..Len(arg) : IsSpecial(arg[i])

\* the day a date field names, read from its text; -1 when it names none
DayOf(v) == IF v.t = "str" /\ IsDateStr(v.s) THEN DigitVal(v.s[2]) ELSE 0 - 1

\* the coupon's start day has not begun at the instant now
StartsLater(c, now) == DayOf(c.start) >= 0 /\ now < DayOf(c.start) * DayTicks

\* the coupon's end day is over at the instant now
Ended(c, now) == DayOf(c.end) >= 0 /\ now >= (DayOf(c.end) + 1) * DayTicks

\* the instant now lies within the coupon's end day
OnEndDay(c, now) ==
    /\ DayOf(c.end) >= 0
    /\ now >= DayOf(c.end) * DayTicks
    /\ now < (DayOf(c.end) + 1) * DayTicks

\* C14: coupon status precedence.  statusOf gives one of the five statuses:
\* 'disabled' exactly for an unpublished coupon, whatever its dates and its
\* usage; 'scheduled' exactly for a published one whose valid start date lies
\* ahead; 'expired' exactly for a published one that is not scheduled and
\* whose valid end date has passed; 'limit exhausted' only when the uses have
\* reached the limit, and 'active' only when they have not reached a limit
\* greater than 0.
StatusPrecedence ==
    (page = "status" /\ out # NotApplied) =>
        LET c   == arg.c
            now == arg.now
            pub == c.published.b
        IN  /\ out \in {StDisabled, StScheduled, StExpired, StExhausted, StActive}
            /\ (out = StDisabled) <=> ~pub
            /\ (out = StScheduled) <=> (pub /\ StartsLater(c, now))
            /\ (out = StExpired) <=> (pub /\ ~StartsLater(c, now) /\ Ended(c, now))
            /\ (out = StExhausted) => c.used.n >= c.maxUses.n
            /\ (out = StActive) => ~(c.maxUses.n > 0 /\ c.used.n >= c.maxUses.n)

\* an unpublished coupon whose start lies ahead and whose limit is reached
\* was reported disabled
StatusPrecedenceWitness ==
    /\ page = "status" /\ out = StDisabled
    /\ StartsLater(arg.c, arg.now)
    /\ arg.c.maxUses.n = 1 /\ arg.c.used.n = 1

\* C15 (as claimed): coupon limits and window bounds.  A published coupon
\* whose start is empty or not after the current time is reported 'limit
\* exhausted' exactly when maxUses is greater than 0 and used >= maxUses, and
\* is not reported 'expired' at any instant of its end day.
LimitsAndWindowAsClaimed ==
    (page = "status" /\ out # NotApplied /\ arg.c.published.b
        /\ ~StartsLater(arg.c, arg.now)) =>
        /\ (out = StExhausted) <=> (arg.c.maxUses.n > 0 /\ arg.c.used.n >= arg.c.maxUses.n)
        /\ OnEndDay(arg.c, arg.now) => out # StExpired
        /\ (out = StExpired) => Ended(arg.c, arg.now)

\* C15 (amended): a published coupon whose start is empty or not after the
\* current time and whose end day is not over is reported 'limit exhausted'
\* exactly when maxUses is not 0 and used >= maxUses (0 means unlimited; a
\* negative maxUses counts as reached); a coupon is not reported 'expired'
\* at any instant of its end day, only after the last instant of that day,
\* and once expired it is not reported 'limit exhausted'.
LimitsAndWindow ==
    (page = "status" /\ out # NotApplied /\ arg.c.published.b
        /\ ~StartsLater(arg.c, arg.now)) =>
        /\ ~Ended(arg.c, arg.now) =>
              ((out = StExhausted) <=>
                  (arg.c.maxUses.n # 0 /\ arg.c.used.n >= arg.c.maxUses.n))
        /\ OnEndDay(arg.c, arg.now) => out # StExpired
        /\ (out = StExpired) <=> Ended(arg.c, arg.now)

\* at the last instant of its end day a coupon with its limit reached was
\* reported 'limit exhausted', not 'expired'
LimitsAndWindowWitness ==
    /\ page = "status" /\ out = StExhausted
    /\ arg.c.published.b
    /\ OnEndDay(arg.c, arg.now) /\ ~OnEndDay(arg.c, arg.now + 1)
    /\ arg.c.maxUses.n = 2 /\ arg.c.used.n = 2

\* the sort state of the table on the page
SortOf(p, cs, qs) == IF p = "cards" THEN cs ELSE qs

\* the click turned the sort state old into new as the toggle rule says
Toggled(old, new, by) ==
    /\ new.by = by
    /\ new.dir = IF old.by = by
                 THEN (IF old.dir = "asc" THEN "desc" ELSE "asc")
                 ELSE "asc"

\* C16 (as claimed): sort toggle.  A click on the current sort column flips
\* the direction, a click on another column makes it the sort column with
\* direction asc; and the direction is desc after a click only if the click
\* before it was on the same column and the direction before was asc.
SortToggleAsClaimed ==
    [][ last'.op = "sort" =>
          LET old == SortOf(page, cSort, qSort)
              new == SortOf(page, cSort', qSort')
          IN  /\ Toggled(old, new, last'.id.s[1])
              /\ new.dir = "desc" =>
                    (last.op = "sort" /\ last.id = last'.id /\ old.dir = "asc")
      ]_vars

\* C16 (amended): a click on the current sort column flips the direction, a
\* click on another column makes it the sort column with direction asc; and
\* the direction is desc after a click only if the clicked column was the
\* sort column already (from the click before, or the column the table is
\* sorted by when the page loads) and the direction before was asc.
SortToggle ==
    [][ last'.op = "sort" =>
          LET old == SortOf(page, cSort, qSort)
              new == SortOf(page, cSort', qSort')
          IN  /\ Toggled(old, new, last'.id.s[1])
              /\ new.dir = "desc" => (old.by = last'.id.s[1] /\ old.dir = "asc")
              /\ (last.op = "sort" /\ new.dir = "desc") => last.id = last'.id
      ]_vars

\* two clicks on the value column of the coupons table, which loads sorted by
\* title: the first made it the sort column, the second turned it to desc
SortToggleWitness ==
    /\ page = "coupons" /\ last.op = "sort" /\ clock = 2
    /\ qSort = [by |-> "value", dir |-> "desc"]
    /\ Len(qTbody) > 1

\* how often x occurs in the sequence
Count(seq, x) == Cardinality({i \in 1..Len(seq) : seq[i] = x})

\* every row occurs in the collection at least as often as among the rows
SubMultiset(rws, coll) ==
    \A i \in 1..Len(rws) : Count(rws, rws[i]) <= Count(coll, rws[i])

\* no row stands before a row with a smaller key (a greater one, when the
\* direction is desc)
InOrder(keys, asc) ==
    \A i \in 1..Len(keys) : \A j \in (i + 1)..Len(keys) :
        IF asc THEN ~JsGt(keys[i], keys[j]) ELSE ~JsLt(keys[i], keys[j])

\* the rows of each table are rows of its collection, in the order of the
\* sort key; the coupons' keys are taken at an instant not after now, the
\* instant the table was drawn
RowsOfCollection ==
    /\ page = "cards" =>
          /\ SubMultiset(cTbody, cards)
          /\ InOrder([i \in 1..Len(cTbody) |-> cardSortKey(cTbody[i], cSort.by)],
                     cSort.dir = "asc")
    /\ page = "coupons" =>
          /\ SubMultiset(qTbody, coupons)
          /\ \E t \in 0..clock :
                InOrder([i \in 1..Len(qTbody) |-> couponSortKey(qTbody[i], qSort.by, t)],
                        qSort.dir = "asc")
    /\ (page = "list" /\ out # NotApplied) =>
          /\ SubMultiset(out, arg.coll.items)
          /\ LET srt == filters(arg.dom).sort IN
               listSortDir(srt) # 0 =>
                  InOrder([i \in 1..Len(out) |-> listSortKey(out[i], srt)],
                          srt \in {"created_asc", "name_asc", "status"})

\* C17: rendering is read-only.  A change of the search text, of a filter or
\* of the sort column or direction leaves the collection in memory (its
\* records and their order) and the stored array as they were, and list()
\* leaves the collection it draws as it was; the rows drawn are always a
\* sub-multiset of the collection, in the order of the current sort key and
\* direction.
RenderReadOnly ==
    /\ []RowsOfCollection
    /\ [][ /\ last'.op \in {"sort", "search", "filter"} =>
                 (cards' = cards /\ coupons' = coupons /\ ls' = ls)
           /\ page = "list" => (arg' = arg /\ ls' = ls)
         ]_vars

\* the coupons table redrawn in descending order of the value, with a filter
\* that hides some of the coupons, the stored array still what it was
RenderReadOnlyWitness ==
    /\ page = "coupons" /\ last.op = "sort"
    /\ qSort = [by |-> "value", dir |-> "desc"]
    /\ qFilter.status # E
    /\ Len(qTbody) > 1 /\ Len(qTbody) < Len(coupons)
    /\ JsGt(qTbody[1].value, qTbody[2].value)

\* the value is an array of records
IsRows(v) == DOMAIN v = 1..Len(v)

\* C18 (as claimed): array invariant.  Whatever text is stored under the key
\* of a page script, the collection the script holds in memory is an array:
\* the cards of the ks_cards_v1 widget, the coupons, the cards of the
\* ks_cards script of cabinet-cards.js and the rows of cabinet.js.
ArrayInvariant ==
    /\ page = "cards" => IsRows(cards)
    /\ page = "coupons" => IsRows(coupons)
    /\ page = "cabinet-cards.js" => IsArr(kCards)
    /\ page \in {"cabinet.js#cards", "cabinet.js#districts", "cabinet.js#overview"} =>
          (IsRows(rows) /\ IsRows(dRows))

\* C19 (as claimed): numeric range invariant.  Starting from the demo data,
\* after any sequence of form saves, deletes and CSV imports on the cards
\* widget, the discount of every card is null or a number in 0..99.
DiscountRange ==
    page = "cards" =>
        \A i \in 1..Len(cards) :
            LET d == Get(cards[i], "discount") IN
            d.t = "null" \/ (d.t = "num" /\ d.n >= 0 /\ d.n <= 99)

\* no two records of the collection have the same id (the same under ===:
\* the number 7 and the text 7 are two ids)
PairwiseDistinct(arr) ==
    \A i \in 1..Len(arr) : \A j \in (i + 1)..Len(arr) :
        Get(arr[i], "id") # Get(arr[j], "id")

\* C20: id uniqueness.  With uid() handing out fresh ids, a collection of
\* cards or of coupons that starts with pairwise distinct ids keeps them
\* pairwise distinct through every add, edit, delete and CSV import, a file
\* with several rows of the same id included.
IdUniqueness ==
    /\ page = "cards" => PairwiseDistinct(cards)
    /\ page = "coupons" => PairwiseDistinct(coupons)

\* the file whose first two rows carry the id of the first demo card was
\* imported into the demo cards: one card has that id, and it is the one of
\* the second row
IdUniquenessWitness ==
    /\ page = "cards" /\ last.op = "import"
    /\ Len(cards) = 4
    /\ Cardinality({i \in 1..Len(cards) : cards[i].id = Str(Uid(1))}) = 1
    /\ \E i \in 1..Len(cards) : cards[i].id = Str(Uid(1)) /\ cards[i].name = Str(<< "Y" >>)

\* a cell of a hand-written table without the quotes around it
Bare(c) ==
    IF Len(c) >= 2 /\ c[1] = "\"" /\ c[Len(c)] = "\"" THEN SubSeq(c, 2, Len(c) - 1) ELSE c

\* the field of column k in line r of table t; empty when t has no column k
FieldOf(t, r, k) ==
    IF \E j \in 1..Len(t[1]) : t[1][j] = k
    THEN Bare(t[r][CHOOSE j \in 1..Len(t[1]) : t[1][j] = k])
    ELSE E

\* the lines of t that have every required field
RowsTaken(t, required) ==
    {r \in 2..Len(t) : \A k \in required : FieldOf(t, r, k) # E}

\* new is old after the import of table t: the records keep their places,
\* a record whose id no taken line carries is untouched, a record whose id
\* is carried holds the text of the last such line, and the lines that bring
\* an id the collection did not have (or no id) follow at the end, once per
\* id and in the order of the file
UpsertOnly(t, required, shown, old, new) ==
    LET taken    == RowsTaken(t, required)
        idOf(r)  == FieldOf(t, r, "id")
        hits(id) == {r \in taken : idOf(r) # E /\ Str(idOf(r)) = id}
        final(s) == CHOOSE r \in s : \A r2 \in s : r2 <= r
        known(r) == \/ \E i \in 1..Len(old) : Get(old[i], "id") = Str(idOf(r))
                    \/ \E r2 \in taken : r2 < r /\ idOf(r2) = idOf(r)
        news     == {r \in taken : idOf(r) = E \/ ~known(r)}
        rank(r)  == Cardinality({r2 \in news : r2 <= r})
    IN  /\ Len(new) = Len(old) + Cardinality(news)
        /\ \A i \in 1..Len(old) :
              IF hits(Get(old[i], "id")) = {}
              THEN new[i] = old[i]
              ELSE /\ Get(new[i], "id") = Get(old[i], "id")
                   /\ Get(new[i], shown) = Str(FieldOf(t, final(hits(Get(old[i], "id"))), shown))
        /\ \A r \in news :
              LET rec == new[Len(old) + rank(r)] IN
              IF idOf(r) = E
              THEN /\ Get(rec, shown) = Str(FieldOf(t, r, shown))
                   /\ \A i \in 1..Len(old) : Get(old[i], "id") # Get(rec, "id")
              ELSE /\ Get(rec, "id") = Str(idOf(r))
                   /\ Get(rec, shown) = Str(FieldOf(t, final(hits(Str(idOf(r)))), shown))

\* C21: CSV import is an upsert that never removes.  After an import every
\* record whose id is not in the file is unchanged at its place, a row whose
\* id matches a record replaces it in place, a row with a new or empty id is
\* appended at the end in file order, and a row without a name (coupons:
\* without title or code) is skipped without effect on the other rows.
ImportUpsert ==
    [][ /\ \A t \in {CardTable1, CardTable2, CardTable3} :
              ImportCsv(File("cards.csv", TableText(t)))
                  => UpsertOnly(t, {"name"}, "name", cards, cards')
        /\ \A t \in {CouponTable1, CouponTable2, CouponTable3} :
              ImportCsvCoupons(File("coupons.csv", TableText(t)))
                  => UpsertOnly(t, {"title", "code"}, "title", coupons, coupons')
      ]_vars

\* the file with two rows for the first demo card and one row with a new id
\* was imported into the demo cards: the first card is still first and shows
\* the second row, the new id is last
ImportUpsertWitness ==
    /\ page = "cards" /\ last.op = "import" /\ clock = 1
    /\ Len(cards) = 4
    /\ cards[1].id = Str(Uid(1)) /\ cards[1].name = Str(<< "Y" >>)
    /\ cards[4].id = Str(<< "7" >>) /\ cards[4].name = Str(<< "Z" >>)

\* no record of arr is drawn with the id the form holds
Gone(arr, formId) == \A i \in 1..Len(arr) : rowAttr(arr[i]) # Str(formId)

\* saving the form of the ks_cards page, opened for a card that is gone,
\* leaves the collection as it is
StaleEditKs ==
    [][ ( /\ page = "cabinet-cards.js" /\ last'.op = "save" /\ last'.done
          /\ kForm.editId # E /\ Gone(kCards.items, kForm.editId) )
        => kCards' = kCards ]_vars

\* C22: edit after delete.  When the record a form was opened for is no
\* longer in the collection at the time the form is saved, the save adds no
\* record: a deleted record is not re-created by a stale edit form.
StaleEdit ==
    [][ /\ ( /\ page = "cards" /\ last'.op = "save" /\ last'.done
              /\ cForm.fId # E /\ Gone(cards, cForm.fId) )
            => Len(cards') <= Len(cards)
        /\ ( /\ page = "coupons" /\ last'.op = "save" /\ last'.done
              /\ qForm.id # E /\ Gone(coupons, qForm.id) )
            => Len(coupons') <= Len(coupons)
        /\ ( /\ page = "cabinet-cards.js" /\ last'.op = "save" /\ last'.done
              /\ kForm.editId # E /\ Gone(kCards.items, kForm.editId) )
            => Len(kCards'.items) <= Len(kCards.items)
      ]_vars

\* new is old with the record of the given id edited: same length, the
\* record at the same index with the same id and, where it had a value
\* there, the same value under each of the kept keys; every other record as
\* it was
EditKeeps(old, new, id, kept) ==
    LET i == FindIndex(old, id) IN
    /\ Len(new) = Len(old)
    /\ Get(new[i], "id") = Get(old[i], "id")
    /\ \A k \in kept : Truthy(Get(old[i], k)) => Get(new[i], k) = Get(old[i], k)
    /\ \A j \in 1..Len(old) : j # i => new[j] = old[j]

\* the record of the given id has in new the value it had in old under key k
SameField(old, new, id, k) ==
    LET i == FindIndex(old, id) IN Get(new[i], k) = Get(old[i], k)

\* new is old with one record, of an id old did not have, put in front
InsertsFront(old, new) ==
    /\ Len(new) = Len(old) + 1
    /\ Tail(new) = old
    /\ \A j \in 1..Len(old) : Get(old[j], "id") # Get(new[1], "id")

\* C23: edit preserves identity and position.  Saving the edit of a record
\* of the collection keeps its id, its index, its createdAt when it has one
\* and, for a coupon, its used counter, changes no other record and keeps
\* the length; saving a new record puts exactly one record with a fresh id
\* in front of the collection.
EditPreserves ==
    [][ (last'.op = "save" /\ last'.done) =>
          /\ page = "cards" =>
                IF cForm.fId = E THEN InsertsFront(cards, cards')
                ELSE FindIndex(cards, Str(cForm.fId)) > 0
                       => EditKeeps(cards, cards', Str(cForm.fId), {"createdAt"})
          /\ page = "coupons" =>
                IF qForm.id = E THEN InsertsFront(coupons, coupons')
                ELSE FindIndex(coupons, Str(qForm.id)) > 0
                       => /\ EditKeeps(coupons, coupons', Str(qForm.id), {"createdAt", "used"})
                          /\ Get(coupons[FindIndex(coupons, Str(qForm.id))], "used").t = "num"
                                => SameField(coupons, coupons', Str(qForm.id), "used")
          /\ page = "cabinet-cards.js" =>
                IF kForm.editId = E THEN InsertsFront(kCards.items, kCards'.items)
                ELSE FindIndex(kCards.items, Str(kForm.editId)) > 0
                       => /\ EditKeeps(kCards.items, kCards'.items, Str(kForm.editId),
                                       {"createdAt"})
                          /\ SameField(kCards.items, kCards'.items, Str(kForm.editId),
                                       "createdAt")
      ]_vars

\* the first stored card was edited and saved: it is still the first of
\* two, shows the new name and has the createdAt it was stored with; the
\* second card is as it was stored
EditPreservesWitness ==
    /\ page = "cards" /\ last.op = "save" /\ last.done /\ clock = 2
    /\ last.id = StoredCard.id
    /\ Len(cards) = 2
    /\ cards[1].id = StoredCard.id /\ cards[1].name = Str(<< "Z" >>)
    /\ cards[1].createdAt = StoredCard.createdAt
    /\ cards[1].updatedAt # StoredCard.updatedAt
    /\ cards[2] = NumIdCard

\* the ids of arr that uid() handed out after the page was loaded
AddedIn(arr) ==
    {Get(arr[i], "id") : i \in 1..Len(arr)} \cap {Str(Uid(k)) : k \in 4..uidCtr}

\* C24: no lost updates across page instances.  With two instances of the
\* cards page open on the same key, the stored array holds every record one
\* of them added and that was not deleted afterwards.  An instance never
\* reads the key again, so a record added in one instance is never in the
\* other and can be deleted in its own instance only: the records added and
\* not deleted are the added ids in the two instances' collections.
NoLostUpdates ==
    (page = "cards" /\ other # NoTab) =>
        LET stored == load(ls) IN
        AddedIn(cards) \cup AddedIn(other.cards) \subseteq
            {Get(stored[i], "id") : i \in 1..Len(stored)}

\* the places of the stack that come after a catch-all
LateLayers == {i \in 1..Len(Stack) : \E j \in 1..(i - 1) : Stack[j].kind = "use"}

\* C25: catch-all ordering.  The route handlers registered after the 404
\* catch-all (the second /cabinet/cards, /cabinet/qr and /cabinet/districts)
\* are not invoked for any request: no request gets as far as their places
\* in the stack, and no answer is the one of a stack run to its end.
CatchAllOrdering ==
    page = "server" =>
        /\ Cardinality(LateLayers) = Len(LateRoutes)
        /\ layer \notin LateLayers
        /\ (layer = 0 /\ req # NoReq) => res # FinalHandler(req)

\* a GET of /cabinet/districts, the path of the last late handler, was
\* answered with the page of the route registered before the catch-all, and
\* the request before it, for a path without route, by the catch-all
CatchAllOrderingWitness ==
    /\ page = "server" /\ layer = 0
    /\ req = [method |-> "GET", path |-> Path(<< "cabinet", "districts" >>, "", FALSE)]
    /\ res = SendFile(PublicFile("cabinet-districts", "html"))
    /\ served.req = [method |-> "GET", path |-> Path(<< "cabinet", "nope" >>, "", FALSE)]
    /\ served.res.status = 404 /\ served.res.body = TextBody("Not Found")

\* the text is the JSON text of an array
ArrayText(text) == text.k = "json" /\ text.v.t = "arr"

\* C26: the JSON import of the ks_cards page is all-or-nothing.  A file that
\* parses to an array replaces the collection and the stored array by
\* exactly that array; any other file is answered with an alert and leaves
\* both as they were; the file an export writes for a collection parses to
\* exactly that collection, so that importing it restores the collection.
JsonImport ==
    [][ /\ \A file \in KFiles \cup {download} :
              KImport(file) =>
                  IF ArrayText(file.text)
                  THEN /\ kCards' = file.text.v
                       /\ ArrayText(GetItem(ls', KS_CARDS))
                       /\ GetItem(ls', KS_CARDS).v = file.text.v
                       /\ last'.done
                  ELSE /\ last'.alert
                       /\ kCards' = kCards /\ ls' = ls
        /\ (KExport /\ IsArr(kCards)) =>
              (ArrayText(download'.text) /\ download'.text.v = kCards)
      ]_vars

\* the collection was exported, a card was deleted, and the exported file
\* was imported: the collection and the stored array are the exported ones
JsonImportWitness ==
    /\ page = "cabinet-cards.js" /\ last.op = "import" /\ last.done /\ clock = 3
    /\ download # NoFile /\ ArrayText(download.text)
    /\ kCards = download.text.v
    /\ GetItem(ls, KS_CARDS) = download.text
    /\ Len(kCards.items) = 2

\* the status of the card of the given id in a collection
StatusIn(items, id) == Get(items[FindIndex(items, id)], "status")

\* C27: publish / unpublish on the ks_cards page.  A click on a row's link
\* sets the card's status to published when the link was 'publish' and to
\* draft when it was 'unpublish', and changes no other field and no other
\* card; the row offers 'unpublish' exactly when the status is published; a
\* card under moderation moves to published only, and no click on these
\* links makes a card one under moderation.
PublishTransitions ==
    /\ [](page = "cabinet-cards.js" =>
            \A i \in 1..Len(kList) :
                rowAct(kList[i]) = "unpub" <=> Get(kList[i], "status") = Str(StPublished))
    /\ [][ (last'.op = "pub" /\ last'.done) =>
             LET id == last'.id
                 i  == FindIndex(kCards.items, id)
             IN  /\ i > 0
                 /\ Len(kCards'.items) = Len(kCards.items)
                 /\ \A j \in 1..Len(kCards.items) : j # i => kCards'.items[j] = kCards.items[j]
                 /\ DOMAIN kCards'.items[i] = DOMAIN kCards.items[i] \cup {"status"}
                 /\ \A k \in DOMAIN kCards.items[i] :
                        k # "status" => kCards'.items[i][k] = kCards.items[i][k]
                 /\ StatusIn(kCards'.items, id) =
                        IF StatusIn(kCards.items, id) = Str(StPublished)
                        THEN Str(StDraft) ELSE Str(StPublished)
                 /\ StatusIn(kCards.items, id) = Str(StModeration)
                        => StatusIn(kCards'.items, id) = Str(StPublished)
                 /\ GetItem(ls', KS_CARDS) = StringifyValue(kCards')
          ]_vars
    /\ [][ last'.op = "pub" =>
             \A j \in 1..Len(kCards'.items) :
                 Get(kCards'.items[j], "status") = Str(StModeration)
                     => (j <= Len(kCards.items) /\ kCards.items[j] = kCards'.items[j])
          ]_vars

\* the demo card under moderation was published, unpublished and published
\* again: it is published, and no card is under moderation
PublishTransitionsWitness ==
    /\ page = "cabinet-cards.js" /\ last.op = "pub" /\ last.done /\ clock = 3
    /\ last.id = Str(<< "c", "2" >>)
    /\ StatusIn(kCards.items, Str(<< "c", "2" >>)) = Str(StPublished)
    /\ \A j \in 1..Len(kCards.items) : Get(kCards.items[j], "status") # Str(StModeration)

\* JSON keeps the value: no undefined, no NaN, not even inside
Representable(v) ==
    /\ v.t \notin {"undef", "nan"}
    /\ v.t = "arr" => \A i \in 1..Len(v.items) : JsonObj(v.items[i]) = v.items[i]

\* the calls made so far are a save and then a get
SavedThenGot == Len(out) = 2 /\ out[1].fn = "save" /\ out[2].fn = "get"

\* the get that was made, if one was
GotAt == CHOOSE i \in 1..Len(out) : out[i].fn = "get"

\* neither helper lets an exception out
StorageNeverThrows == \A i \in 1..Len(out) : ~out[i].ret.threw

\* C28 (as claimed): storage helper round trip.  For every key and every
\* JSON-representable value, getFromLocalStorage after saveToLocalStorage
\* returns a value equal to the one saved; getFromLocalStorage returns the
\* default exactly when the key is absent or its content does not parse; and
\* neither function throws.
StorageRoundTripAsClaimed ==
    page = "storage.ts" =>
        /\ (SavedThenGot /\ Representable(arg.value)) => out[2].ret.value = arg.value
        /\ (\E i \in 1..Len(out) : out[i].fn = "get") =>
              LET raw == GetItem(ls, arg.key) IN
              IF raw.k \in {"absent", "empty", "garbage"}
              THEN out[GotAt].ret.value = arg.defaultValue
              ELSE out[GotAt].ret.value = raw.v
        /\ StorageNeverThrows

\* C28: storage helper round trip.  Where there is a window and the browser
\* accepts the write, getFromLocalStorage after saveToLocalStorage returns a
\* value equal to the JSON-representable value saved; where there is no
\* window or the write is refused, the save changes nothing (a refused
\* write is logged) and the get returns what it would have returned before.
\* getFromLocalStorage returns the default when there is no window, when
\* the key is absent and when its content does not parse (which is logged),
\* and the parsed content otherwise; neither function throws.
StorageRoundTrip ==
    page = "storage.ts" =>
        /\ StorageNeverThrows
        /\ (SavedThenGot /\ Representable(arg.value)) =>
              IF arg.window /\ ~arg.refused
              THEN out[2].ret.value = arg.value /\ ~out[1].ret.logged
              ELSE /\ ls = SetItem(EmptyStore, arg.key, arg.held)
                   /\ out[1].ret.logged = arg.refused
                   /\ out[2].ret.value =
                         IF arg.held.k = "json" THEN arg.held.v ELSE arg.defaultValue
        /\ (\E i \in 1..Len(out) : out[i].fn = "get") =>
              LET raw == GetItem(ls, arg.key)
                  ret == out[GotAt].ret
              IN  IF ~arg.window \/ raw.k \in {"absent", "empty", "garbage"}
                  THEN ret.value = arg.defaultValue /\ ret.logged = (raw.k # "absent")
                  ELSE ret.value = raw.v /\ ~ret.logged

\* the array of one record was saved over unparsable content and read back
StorageRoundTripWitness ==
    /\ page = "storage.ts" /\ SavedThenGot
    /\ arg.window /\ ~arg.refused /\ arg.held = LsGarbage
    /\ arg.value = JsonArr(<< StorageRecord >>)
    /\ out[2].ret.value = JsonArr(<< StorageRecord >>)
    /\ arg.defaultValue # arg.value

\* the promise of isAuthenticated has settled
AuthSettled == page = "isAuthenticated" /\ out # NotApplied /\ out.at = "isAuthenticated"

\* the current-user request completed with an OK response
CompletedOk == arg.net = "response" /\ ResponseOk(arg.status)

\* C29 (as claimed): isAuthenticated never rejects.  It resolves to true
\* exactly when the current-user request completes with an OK response, and
\* to false for every failure of the request.
NeverRejectsAsClaimed ==
    AuthSettled => (out.p.k = "fulfilled" /\ out.p.v = Bool(CompletedOk))

\* C29: isAuthenticated never rejects.  It resolves to true exactly when the
\* current-user request completes with an OK response whose body is not the
\* JSON text null, and to false otherwise: for a network error, for every
\* response that is not OK, and for an OK response with the body null, where
\* reading .user throws.
NeverRejects ==
    AuthSettled =>
        /\ out.p.k = "fulfilled"
        /\ out.p.v = Bool(CompletedOk /\ arg.body # LsJson(Null))

\* a 401 with an error message: handleResponse threw, isAuthenticated
\* resolved to false
NeverRejectsWitness ==
    /\ AuthSettled
    /\ arg.net = "response" /\ arg.status = 401 /\ arg.body = LsJson(BodyMessage)
    /\ out.p = Fulfilled(Bool(FALSE))

\* the step is one that has to end with the menu closed
ClosingEvent(ev, width) ==
    \/ ev.op \in {"backdrop", "nav"}
    \/ ev.op = "key" /\ ev.id = Str(<< "E", "s", "c", "a", "p", "e" >>)
    \/ ev.op = "resize" /\ width > WideAbove

\* C30: mobile sidebar consistency.  In every state reached by menu-button
\* clicks, backdrop clicks, nav-item clicks, key presses and resizes, the
\* sidebar has 'open' exactly when the backdrop has 'visible' and the body
\* has 'menu-open'; a click on the menu button turns open into closed and
\* closed into open; a backdrop click, a nav-item click, Escape and a
\* resize to more than 900px end with the menu closed.
SidebarConsistency ==
    /\ [](page = "script.js" =>
            (menu.sidebar = menu.backdrop /\ menu.sidebar = menu.body))
    /\ [][ page = "script.js" =>
             /\ last'.op = "menu" => menu'.sidebar = ~menu.sidebar
             /\ ClosingEvent(last', menu'.width) => ~menu'.sidebar
          ]_vars

\* the menu was opened by the button and closed by Escape, and the button
\* opened it again
SidebarConsistencyWitness ==
    /\ page = "script.js" /\ clock = 3 /\ last.op = "menu"
    /\ menu.sidebar /\ menu.backdrop /\ menu.body
    /\ menu.width <= WideAbove

====
